---- MODULE Spec2Model ----
(***************************************************************************)
(* faostat-pipeline: the rate-limited, retrying HTTP client (client.py),   *)
(* the response cleaner (cleaner.py) and the fetch -> clean -> export      *)
(* pipeline (pipeline.py, cli.py, exporter.py) as one state machine.       *)
(*                                                                         *)
(* Time is counted in ticks; one minimum interval of the rate limiter is   *)
(* TicksPerInterval ticks, so one second is RATE_LIMIT * TicksPerInterval. *)
(***************************************************************************)
EXTENDS Integers, Sequences, FiniteSets, TLC

VARIABLES
    clock,              \* time.monotonic(), in ticks
    last_request_time,  \* client.py: _last_request_time
    rate_lock,          \* client.py: _rate_lock; 0 = free, else the holder
    pc,                 \* per caller: where its get/post call stands
    wake,               \* per caller: the time its current sleep ends
    attempt,            \* per caller: tenacity's attempt_number
    outcomes,           \* per caller: status of every attempt of the call (0 = transport failure)
    result,             \* per caller: what the call returned or raised
    permits,            \* number of permits the limiter has issued
    firstPermit,        \* dispatch time recorded by the first permit
    requests,           \* number of HTTP requests handed to httpx
    rawInput,           \* clean_data: its argument raw
    stage,              \* clean_data: the step it has reached
    extracted,          \* clean_data: what _extract_records gave
    frame,              \* clean_data: the frame df
    fetched_at,         \* clean_data: the timestamp it stamped, 0 before
    ppc,                \* run_pipeline: the step it has reached
    entry,              \* how the pipeline was started: "cli" (fetch) or "api" (run_pipeline)
    to_csv,             \* run_pipeline: to_csv
    to_parquet,         \* run_pipeline: to_parquet
    check_size_first,   \* run_pipeline: check_size_first
    fetched,            \* run_pipeline: raw, the response of get_data
    cleaned,            \* run_pipeline: df, the cleaned frame
    written,            \* run_pipeline: the formats export returned
    files,              \* the file system: what export created
    failure,            \* the error the run ended with, "none" without one
    sizing,             \* run_pipeline: how the sizing step ended, "none" before
    calls,              \* run_pipeline: the endpoint calls it has made, in order
    partitions,         \* the file system: the partition files export_partitioned wrote
    partition_col,      \* export_partitioned: partition_col
    invocations,        \* number of clean_data calls made so far
    prev_fetched_at,    \* the previous clean_data call: its clock reading and the value it stamped
    domain_codes,       \* run_pipeline_batch: domain_codes
    code_idx,           \* run_pipeline_batch: position of the for loop, 0 outside it
    results,            \* run_pipeline_batch: results, as a set of (code, written) entries
    console,            \* run_pipeline_batch: the lines it printed, in order
    token_arg,          \* FAOSTATClient(token=...): the argument, empty for None
    API_TOKEN,          \* client.py: API_TOKEN, read from the environment at import
    token,              \* FAOSTATClient: self.token
    wall,               \* time.time(), in seconds
    constructed,        \* FAOSTATClient(...): "none" before, "ok", or the exception raised
    http_client,        \* FAOSTATClient: self._client; "None", "open" or "closed"
    warned,             \* number of warnings _check_token_expiry has emitted
    waiters             \* asyncio.Lock: the callers suspended in _rate_lock.acquire(), first in first out

clientVars == <<clock, last_request_time, rate_lock, pc, wake, attempt,
                outcomes, result, permits, firstPermit, requests>>
cleanVars == <<rawInput, stage, extracted, frame, fetched_at, invocations,
               prev_fetched_at>>
pipeVars == <<ppc, entry, to_csv, to_parquet, check_size_first, fetched,
              cleaned, written, files, failure, sizing, calls, partitions,
              partition_col>>
batchVars == <<domain_codes, code_idx, results, console>>
ctorVars == <<token_arg, API_TOKEN, token, wall, constructed, http_client, warned>>
lockVars == <<waiters>>
nonClientVars == <<cleanVars, pipeVars, batchVars, ctorVars, lockVars>>

vars == <<clientVars, cleanVars, pipeVars, batchVars, ctorVars, lockVars>>

----------------------------------------------------------------------------
(* Bounds of the model *)

NumCallers == 2
TicksPerInterval == 2
MaxClock == 14
MaxRetrySeconds == 4
MaxPipeSeconds == 7
MaxRows == 2
MaxStamp == 2
MaxDomains == 3
MaxInvocations == 2
MaxWall == 2
MaxLiveStart == 2
MaxAttemptDomains == 2

(* Program constants *)

RATE_LIMIT == 2
STOP_AFTER_ATTEMPT == 3
WAIT_MULTIPLIER == 1
WAIT_MIN == 1
WAIT_MAX == 10
EXP_BASE == 2

Callers == 1 .. NumCallers
Second == RATE_LIMIT * TicksPerInterval
MIN_INTERVAL == Second \div RATE_LIMIT
MaxRetryClock == MaxRetrySeconds * Second
MaxPipeClock == MaxPipeSeconds * Second

Min(a, b) == IF a < b THEN a ELSE b
Max(a, b) == IF a > b THEN a ELSE b

RECURSIVE Pow(_, _)
Pow(b, e) == IF e = 0 THEN 1 ELSE b * Pow(b, e - 1)

----------------------------------------------------------------------------
(* JSON values.  A string is a sequence of one-character strings.  A cell   *)
(* is a scalar of a record; numbers are kept in units of 1/Scale.           *)

Str(s) == [t |-> "str", s |-> s, n |-> 0]
Num(n) == [t |-> "num", s |-> <<>>, n |-> n]
NullCell == [t |-> "null", s |-> <<>>, n |-> 0]
IsNull(cell) == cell.t = "null"

\* a record is a sequence of [k, v] pairs with distinct keys, in the order
\* of the JSON object; a mapping's entry holds a list of records or a scalar
Field(k, v) == [k |-> k, v |-> v]
ListEntry(k, recs) == [k |-> k, isList |-> TRUE, recs |-> recs, v |-> NullCell]
ScalarEntry(k, v) == [k |-> k, isList |-> FALSE, recs |-> <<>>, v |-> v]

JList(recs) == [t |-> "list", recs |-> recs, ents |-> <<>>, v |-> NullCell]
JDict(ents) == [t |-> "dict", recs |-> <<>>, ents |-> ents, v |-> NullCell]
JNull == [t |-> "null", recs |-> <<>>, ents |-> <<>>, v |-> NullCell]
JScalar(t, v) == [t |-> t, recs |-> <<>>, ents |-> <<>>, v |-> v]

Range(seq) == {seq[i] : i \in 1 .. Len(seq)}

RECURSIVE SelectIdx(_, _, _)
\* the subsequence of seq at the indices of keep, in order
SelectIdx(seq, keep, i) ==
    IF i > Len(seq) THEN <<>>
    ELSE (IF i \in keep THEN <<seq[i]>> ELSE <<>>) \o SelectIdx(seq, keep, i + 1)

----------------------------------------------------------------------------
(* cleaner.py: _extract_records *)

K_data == <<"d", "a", "t", "a">>
K_Data == <<"D", "a", "t", "a">>
K_items == <<"i", "t", "e", "m", "s">>
K_results == <<"r", "e", "s", "u", "l", "t", "s">>

\* "Data" tried before "data"
WrapperKeys_DataFirst == <<K_Data, K_data, K_items, K_results>>

\* for key in ("data", "Data", "items", "results")
WrapperKeys == <<K_data, K_Data, K_items, K_results>>

\* Python's `sub in s` on strings
IsSubstring(sub, s) ==
    \E i \in 1 .. (Len(s) - Len(sub) + 1) : SubSeq(s, i, i + Len(sub) - 1) = sub

HasKey(ents, k) == \E i \in 1 .. Len(ents) : ents[i].k = k
EntryOf(ents, k) == ents[CHOOSE i \in 1 .. Len(ents) : ents[i].k = k]

\* the result of an extraction: raised (TypeError) or the sequence returned,
\* whose elements are records (recs) or, for a wrapped scalar, bare values
Extracted(recs) == [raised |-> FALSE, recs |-> recs, bare |-> <<>>]
ExtractedBare(v) == [raised |-> FALSE, recs |-> <<>>, bare |-> <<v>>]
ExtractRaised == [raised |-> TRUE, recs |-> <<>>, bare |-> <<>>]
ExtractedLen(x) == Len(x.recs) + Len(x.bare)

\* `key in raw`: "yes", "no", or "raise" when raw supports no membership test
KeyIn(raw, k) ==
    IF raw.t = "dict" THEN (IF HasKey(raw.ents, k) THEN "yes" ELSE "no")
    ELSE IF raw.t = "str" THEN (IF IsSubstring(k, raw.v.s) THEN "yes" ELSE "no")
    ELSE "raise"

\* `[raw] if raw else []`
WrapRaw(raw) ==
    IF raw.t = "dict"
    THEN IF raw.ents = <<>> THEN Extracted(<<>>)
         ELSE Extracted(<<[i \in 1 .. Len(raw.ents) |-> Field(raw.ents[i].k, raw.ents[i].v)]>>)
    ELSE IF raw.v.s = <<>> THEN Extracted(<<>>)
    ELSE ExtractedBare(raw.v)

RECURSIVE ScanKeys(_, _)
\* the for loop over the wrapper keys, from the i-th key on
ScanKeys(raw, i) ==
    IF i > Len(WrapperKeys) THEN WrapRaw(raw)
    ELSE LET k == WrapperKeys[i] IN
         CASE KeyIn(raw, k) = "raise" -> ExtractRaised
           [] KeyIn(raw, k) = "no" -> ScanKeys(raw, i + 1)
           [] OTHER ->
                \* raw[key]: a string cannot be indexed by a string
                IF raw.t # "dict" THEN ExtractRaised
                ELSE IF EntryOf(raw.ents, k).isList
                THEN Extracted(EntryOf(raw.ents, k).recs)
                ELSE ScanKeys(raw, i + 1)

ExtractRecords(raw) ==
    IF raw.t = "list" THEN Extracted(raw.recs) ELSE ScanKeys(raw, 1)

----------------------------------------------------------------------------
(* cleaner.py: _to_snake_case, _normalize_columns *)

UpperChars == <<"A", "B", "C", "D", "E", "F", "G", "H", "I", "J", "K", "L", "M",
                "N", "O", "P", "Q", "R", "S", "T", "U", "V", "W", "X", "Y", "Z">>
LowerChars == <<"a", "b", "c", "d", "e", "f", "g", "h", "i", "j", "k", "l", "m",
                "n", "o", "p", "q", "r", "s", "t", "u", "v", "w", "x", "y", "z">>
DigitChars == <<"0", "1", "2", "3", "4", "5", "6", "7", "8", "9">>

IsUpper(ch) == ch \in Range(UpperChars)
IsLower(ch) == ch \in Range(LowerChars)
IsDigit(ch) == ch \in Range(DigitChars)
IsSep(ch) == ch \in {" ", "-"}
ToLower(ch) ==
    IF IsUpper(ch) THEN LowerChars[CHOOSE i \in 1 .. 26 : UpperChars[i] = ch] ELSE ch

RECURSIVE AcronymBoundary(_, _)
\* re.sub(r"([A-Z]+)([A-Z][a-z])", r"\1_\2", name)
AcronymBoundary(s, i) ==
    IF i > Len(s) THEN <<>>
    ELSE (IF i >= 2 /\ i < Len(s) /\ IsUpper(s[i - 1]) /\ IsUpper(s[i]) /\ IsLower(s[i + 1])
          THEN <<"_", s[i]>> ELSE <<s[i]>>) \o AcronymBoundary(s, i + 1)

RECURSIVE CamelBoundary(_, _)
\* re.sub(r"([a-z\d])([A-Z])", r"\1_\2", name)
CamelBoundary(s, i) ==
    IF i > Len(s) THEN <<>>
    ELSE (IF i >= 2 /\ (IsLower(s[i - 1]) \/ IsDigit(s[i - 1])) /\ IsUpper(s[i])
          THEN <<"_", s[i]>> ELSE <<s[i]>>) \o CamelBoundary(s, i + 1)

RECURSIVE CollapseSeps(_, _)
\* re.sub(r"[\s\-]+", "_", name)
CollapseSeps(s, i) ==
    IF i > Len(s) THEN <<>>
    ELSE (IF IsSep(s[i]) THEN (IF i >= 2 /\ IsSep(s[i - 1]) THEN <<>> ELSE <<"_">>)
          ELSE <<s[i]>>) \o CollapseSeps(s, i + 1)

RECURSIVE StripLeft(_)
StripLeft(s) == IF s # <<>> /\ s[1] = "_" THEN StripLeft(Tail(s)) ELSE s

RECURSIVE StripRight(_)
StripRight(s) ==
    IF s # <<>> /\ s[Len(s)] = "_" THEN StripRight(SubSeq(s, 1, Len(s) - 1)) ELSE s

\* name.lower().strip("_")
LowerStrip(s) == StripRight(StripLeft([i \in 1 .. Len(s) |-> ToLower(s[i])]))

ToSnakeCase(name) ==
    LowerStrip(CollapseSeps(CamelBoundary(AcronymBoundary(name, 1), 1), 1))

----------------------------------------------------------------------------
(* A frame: column names and rows of cells; pd.DataFrame(records)          *)

Frame(cols, rows) == [cols |-> cols, rows |-> rows]
EmptyFrame == Frame(<<>>, <<>>)

\* a frame is never taken for empty
FrameEmpty_Never(df) == FALSE

\* DataFrame.empty
FrameEmpty(df) == Len(df.rows) = 0 \/ Len(df.cols) = 0

RECURSIVE KeysInOrder(_, _)
\* the keys of the records in the order of their first appearance
KeysInOrder(fields, seen) ==
    IF fields = <<>> THEN <<>>
    ELSE IF fields[1].k \in seen THEN KeysInOrder(Tail(fields), seen)
    ELSE <<fields[1].k>> \o KeysInOrder(Tail(fields), seen \cup {fields[1].k})

RECURSIVE Flatten(_)
Flatten(seqs) == IF seqs = <<>> THEN <<>> ELSE seqs[1] \o Flatten(Tail(seqs))

CellAt(rec, k) ==
    IF \E i \in 1 .. Len(rec) : rec[i].k = k
    THEN rec[CHOOSE i \in 1 .. Len(rec) : rec[i].k = k].v
    ELSE NullCell

BuildFrame(recs) ==
    LET cols == KeysInOrder(Flatten(recs), {}) IN
    Frame(cols, [i \in 1 .. Len(recs) |-> [j \in 1 .. Len(cols) |-> CellAt(recs[i], cols[j])]])

NormalizeColumns(df) ==
    Frame([j \in 1 .. Len(df.cols) |-> ToSnakeCase(df.cols[j])], df.rows)

----------------------------------------------------------------------------
(* cleaner.py: _cast_types, with pandas' to_numeric(errors="coerce")       *)

Scale == 10

C_year == <<"y", "e", "a", "r">>
C_value == <<"v", "a", "l", "u", "e">>
C_val == <<"v", "a", "l">>
C_quantity == <<"q", "u", "a", "n", "t", "i", "t", "y">>
C_amount == <<"a", "m", "o", "u", "n", "t">>
C_fetched_at == <<"f", "e", "t", "c", "h", "e", "d", "_", "a", "t">>

IsYearCol(c) == IsSubstring(C_year, c)
IsValueCol(c) == c \in {C_value, C_val, C_quantity, C_amount}

DigitVal(ch) == (CHOOSE i \in 1 .. 10 : DigitChars[i] = ch) - 1
AllDigits(s) == \A i \in 1 .. Len(s) : IsDigit(s[i])

RECURSIVE DigitsValue(_)
DigitsValue(s) ==
    IF s = <<>> THEN 0
    ELSE DigitsValue(SubSeq(s, 1, Len(s) - 1)) * 10 + DigitVal(s[Len(s)])

\* the number a string spells, in 1/Scale units, or null: an optional sign,
\* digits, and at most one fractional digit (all the numerals the model's
\* inputs contain); anything else is coerced to null
ParseNumber(s) ==
    LET neg == s # <<>> /\ s[1] = "-"
        body == IF neg THEN Tail(s) ELSE s
        dots == {i \in 1 .. Len(body) : body[i] = "."}
        sign == IF neg THEN 0 - 1 ELSE 1
    IN IF dots = {}
       THEN IF body # <<>> /\ AllDigits(body)
            THEN Num(sign * DigitsValue(body) * Scale) ELSE NullCell
       ELSE IF Cardinality(dots) = 1
       THEN LET d == CHOOSE i \in dots : TRUE
                ip == SubSeq(body, 1, d - 1)
                fp == SubSeq(body, d + 1, Len(body))
            IN IF AllDigits(ip) /\ AllDigits(fp) /\ Len(ip) + Len(fp) >= 1 /\ Len(fp) <= 1
               THEN Num(sign * (DigitsValue(ip) * Scale + DigitsValue(fp)))
               ELSE NullCell
       ELSE NullCell

\* pd.to_numeric(..., errors="coerce") on one cell
ToNumeric(cell) ==
    IF cell.t = "num" THEN cell
    ELSE IF cell.t = "str" THEN ParseNumber(cell.s)
    ELSE NullCell

\* .astype("Int64") accepts a float only when it is a whole number
IsWhole(cell) == IsNull(cell) \/ cell.n % Scale = 0

Column(df, j) == [i \in 1 .. Len(df.rows) |-> df.rows[i][j]]
CastCols(df) == {j \in 1 .. Len(df.cols) : IsYearCol(df.cols[j]) \/ IsValueCol(df.cols[j])}

\* df[col] is a frame, not a column, when two columns carry the name col,
\* and to_numeric raises TypeError; astype("Int64") raises on a fraction
CastRaises(df) ==
    \/ \E j \in CastCols(df), k \in 1 .. Len(df.cols) : j # k /\ df.cols[j] = df.cols[k]
    \/ \E j \in 1 .. Len(df.cols) :
           IsYearCol(df.cols[j])
           /\ \E i \in 1 .. Len(df.rows) : ~IsWhole(ToNumeric(df.rows[i][j]))

CastCell(col, cell) ==
    IF IsYearCol(col) \/ IsValueCol(col) THEN ToNumeric(cell) ELSE cell

CastTypes(df) ==
    Frame(df.cols,
          [i \in 1 .. Len(df.rows) |->
              [j \in 1 .. Len(df.cols) |-> CastCell(df.cols[j], df.rows[i][j])]])

----------------------------------------------------------------------------
(* cleaner.py: _drop_empty_rows, drop_duplicates, the fetched_at column    *)

\* meta_cols = {"fetched_at"}
DataCols(df) == {j \in 1 .. Len(df.cols) : df.cols[j] # C_fetched_at}

\* dropna(subset=data_cols, how="all") keeps the rows with a non-null data cell
RowKept(df, i) == \E j \in DataCols(df) : ~IsNull(df.rows[i][j])

\* no row is dropped
DropEmptyRows_KeepAll(df) == df

DropEmptyRows(df) ==
    Frame(df.cols, SelectIdx(df.rows, {i \in 1 .. Len(df.rows) : RowKept(df, i)}, 1))

\* drop_duplicates() keeps the first of the rows equal in every column
FirstOfItsKind(df, i) == \A h \in 1 .. (i - 1) : df.rows[h] # df.rows[i]

DropDuplicates(df) ==
    Frame(df.cols, SelectIdx(df.rows, {i \in 1 .. Len(df.rows) : FirstOfItsKind(df, i)}, 1))

\* a timestamp that does not follow the clock
Stamp_Frozen(t) == [t |-> "time", s |-> <<>>, n |-> 0]

\* datetime.now(tz=timezone.utc).isoformat() when the clock reads t seconds
Stamp(t) == [t |-> "time", s |-> <<>>, n |-> t]

\* df["fetched_at"] = datetime.now(tz=timezone.utc).isoformat()
AddFetchedAt(df, t) ==
    IF \E j \in 1 .. Len(df.cols) : df.cols[j] = C_fetched_at
    THEN Frame(df.cols,
               [i \in 1 .. Len(df.rows) |->
                   [j \in 1 .. Len(df.cols) |->
                       IF df.cols[j] = C_fetched_at THEN Stamp(t) ELSE df.rows[i][j]]])
    ELSE Frame(Append(df.cols, C_fetched_at),
               [i \in 1 .. Len(df.rows) |-> Append(df.rows[i], Stamp(t))])

----------------------------------------------------------------------------
(* Responses of the server, as httpx hands them to the client *)

Statuses == {200, 204, 401, 403, 404, 429, 500, 503}
Bodies == {"json", "empty", "text"}
TRANSPORT == 0

\* what one attempt can end in: an HTTP response, or httpx.TransportError
Responses ==
    [status : Statuses \ {200, 204}, body : {"text"}]
        \cup [status : {200}, body : Bodies]
        \cup [status : {204}, body : {"empty"}]
        \cup [status : {TRANSPORT}, body : {"empty"}]

\* the responses the servers of the multi-caller specification give
LimiterResponses ==
    {r \in Responses : r.status \in {200, 429, 503} /\ r.body \in {"json", "text"}
                        /\ (r.status = 200 => r.body = "json")}

\* the responses the servers of the pipeline specification give
PipeResponses ==
    {r \in Responses : r.status \in {200, 401, 404, 429, 503, TRANSPORT}}

NoResult == [kind |-> "none", attempt |-> 0, status |-> 0, form |-> "none", body |-> "none"]

\* 403 is not treated as an authentication failure
RaiseForStatusAuth_401Only(r) == r.status = 401

\* _raise_for_status, then httpx's Response.raise_for_status: the exception
\* class an attempt that got response r raises, "ok" when it raises nothing
RaiseForStatusAuth(r) == r.status = 401 \/ r.status = 403

ExceptionOf(r) ==
    IF r.status = TRANSPORT THEN "TransportError"
    ELSE IF RaiseForStatusAuth(r) THEN "FAOSTATAuthError"
    ELSE IF r.status = 429 THEN "FAOSTATRateLimitError"
    ELSE IF r.status >= 200 /\ r.status < 300 THEN "ok"
    ELSE "HTTPStatusError"

\* a body that is no JSON lets the ValueError of response.json() through
ReturnForm_JsonOrRaise(r) ==
    IF r.body = "empty" THEN "status"
    ELSE IF r.body = "json" THEN "json"
    ELSE "ValueError"

\* what get/post returns for a response that raised nothing
ReturnForm(r) ==
    IF r.body = "empty" THEN "status"
    ELSE IF r.body = "json" THEN "json"
    ELSE "status_text"

\* the status of an HTTPStatusError is not looked at: a 4xx is retried too
RetryOnTransient_AnyStatus(exc, status) ==
    IF exc = "ok" THEN FALSE
    ELSE IF exc = "TransportError" THEN TRUE
    ELSE IF exc = "HTTPStatusError" THEN TRUE
    ELSE FALSE

\* _retry_on_transient: exc is the exception class, status the response's
RetryOnTransient(exc, status) ==
    IF exc = "ok" THEN FALSE
    ELSE IF exc = "TransportError" THEN TRUE
    ELSE IF exc = "HTTPStatusError" /\ status >= 500 THEN TRUE
    ELSE FALSE

\* the call gives up one attempt early
StopAfterAttempt_Two(n) == n >= STOP_AFTER_ATTEMPT - 1

\* the call is allowed one attempt more
StopAfterAttempt_Four(n) == n >= STOP_AFTER_ATTEMPT + 1

\* stop=stop_after_attempt(3)
StopAfterAttempt(n) == n >= STOP_AFTER_ATTEMPT

\* the exponent is the attempt number: the first wait is already doubled
WaitExponential_FromTwo(n) ==
    Max(Max(0, WAIT_MIN), Min(WAIT_MULTIPLIER * Pow(EXP_BASE, n), WAIT_MAX))

\* wait=wait_exponential(multiplier=1, min=1, max=10), in seconds
WaitExponential(n) ==
    Max(Max(0, WAIT_MIN), Min(WAIT_MULTIPLIER * Pow(EXP_BASE, n - 1), WAIT_MAX))

\* reraise left False: tenacity wraps the last exception in RetryError
Reraise_Wrapped(exc, n, status) ==
    [kind |-> "RetryError", attempt |-> n, status |-> status, form |-> "none", body |-> "none"]

\* reraise=True: the exception a call whose attempts are exhausted raises
Reraise(exc, n, status) ==
    [kind |-> exc, attempt |-> n, status |-> status, form |-> "none", body |-> "none"]

\* the outcome of attempt n that got response r, as the caller sees it; body
\* is the kind of content the returned value was made from
AttemptOutcome(r, n) ==
    IF ExceptionOf(r) = "ok"
    THEN [kind |-> "ok", attempt |-> n, status |-> r.status, form |-> ReturnForm(r),
          body |-> r.body]
    ELSE [kind |-> ExceptionOf(r), attempt |-> n, status |-> r.status, form |-> "none",
          body |-> "none"]

----------------------------------------------------------------------------
(* The rate limiter: FAOSTATClient._throttle *)

\* what follows _throttle in an attempt
AfterThrottle == "send"

\* a retry that repeats the request alone, not the throttle before it
RetryEntry_RequestOnly == "send"

\* where a retried attempt starts: the decorated function's first statement
RetryEntry == "lock"

\* the lock left out: every caller enters the section at once
LockFree_Unlocked == TRUE

\* async with _rate_lock: the lock can be taken
LockFree == rate_lock = 0

\* asyncio.sleep(_MIN_INTERVAL - elapsed)
SleepFor(elapsed) == MIN_INTERVAL - elapsed

\* the lock stays with the caller that leaves the section
Release_Kept(c) == rate_lock

\* leaving `async with _rate_lock`: the holder releases the lock
Release(c) == IF rate_lock = c THEN 0 ELSE rate_lock

\* _last_request_time = time.monotonic(), and the permit is issued
RecordDispatch ==
    /\ last_request_time' = clock
    /\ permits' = permits + 1
    /\ firstPermit' = IF permits = 0 THEN clock ELSE firstPermit

ClientInit ==
    /\ last_request_time = 0
    /\ rate_lock = 0
    /\ pc = [c \in Callers |-> "idle"]
    /\ wake = [c \in Callers |-> 0]
    /\ attempt = [c \in Callers |-> 0]
    /\ outcomes = [c \in Callers |-> <<>>]
    /\ result = [c \in Callers |-> NoResult]
    /\ permits = 0
    /\ firstPermit = 0
    /\ requests = 0
    /\ waiters = <<>>

----------------------------------------------------------------------------
(* client.py: FAOSTATClient.__init__ and _check_token_expiry *)

\* if remaining < 600
TOKEN_WARN_SECONDS == 600

\* a token is the sequence of its segments between dots, the empty string
\* the empty sequence; a segment is text that is no base64, the base64 of
\* bytes that are no JSON, or the base64 of a JSON document
Segment(kind, value) == [kind |-> kind, value |-> value]
TextSegment == Segment("text", JNull)
BytesSegment == Segment("bytes", JNull)
JsonSegment(value) == Segment("json", value)
NoToken == <<>>

K_exp == <<"e", "x", "p">>
K_sub == <<"s", "u", "b">>

\* an exp claim of so many seconds
ExpClaim(seconds) == JDict(<<ScalarEntry(K_exp, Num(seconds * Scale))>>)

\* what the try block of _check_token_expiry ends with: the exception class
\* it raises ("none" when it returns) and whether it has warned
TokenCheck(raised, warns) == [raised |-> raised, warns |-> warns]

\* claims.get("exp") on a dict
ClaimsGet(ents, k) ==
    IF ~HasKey(ents, k) THEN NullCell
    ELSE IF EntryOf(ents, k).isList THEN Str(<<>>)
    ELSE EntryOf(ents, k).v

\* the try block: token.split(".")[1], urlsafe_b64decode, json.loads,
\* claims.get("exp"), exp - time.time() and the two comparisons
TryTokenExpiry(tok, now) ==
    IF Len(tok) < 2 THEN TokenCheck("IndexError", 0)
    ELSE IF tok[2].kind = "text" THEN TokenCheck("ValueError", 0)
    ELSE IF tok[2].kind = "bytes" THEN TokenCheck("ValueError", 0)
    ELSE IF tok[2].value.t # "dict" THEN TokenCheck("AttributeError", 0)
    ELSE LET exp == ClaimsGet(tok[2].value.ents, K_exp)
             remaining == exp.n - now * Scale
         IN IF IsNull(exp) THEN TokenCheck("none", 0)
            ELSE IF exp.t # "num" THEN TokenCheck("TypeError", 0)
            ELSE IF remaining <= 0 THEN TokenCheck("FAOSTATAuthError", 0)
            ELSE IF remaining < TOKEN_WARN_SECONDS * Scale THEN TokenCheck("none", 1)
            ELSE TokenCheck("none", 0)

\* except (IndexError, ValueError, KeyError): pass
ExceptDecodeErrors(exc) == exc \in {"IndexError", "ValueError", "KeyError"}

CheckTokenExpiry(tok, now) ==
    LET t == TryTokenExpiry(tok, now)
    IN IF ExceptDecodeErrors(t.raised) THEN TokenCheck("none", t.warns)
       ELSE t

\* self.token = token or API_TOKEN
TokenOr(arg, env) == IF arg # NoToken THEN arg ELSE env

\* how FAOSTATClient(token=arg) ends at time now
ConstructOutcome(arg, env, now) ==
    IF TokenOr(arg, env) = NoToken THEN TokenCheck("FAOSTATAuthError", 0)
    ELSE CheckTokenExpiry(TokenOr(arg, env), now)

\* FAOSTATClient(token=arg)
Construct(arg) ==
    /\ constructed = "none"
    /\ token_arg' = arg
    /\ token' = TokenOr(arg, API_TOKEN)
    /\ LET out == ConstructOutcome(arg, API_TOKEN, wall)
       IN /\ constructed' = IF out.raised = "none" THEN "ok" ELSE out.raised
          /\ warned' = warned + out.warns
    /\ UNCHANGED <<API_TOKEN, wall, http_client, clientVars, cleanVars, pipeVars, batchVars, lockVars>>

\* __aenter__: the httpx client is created
Enter ==
    /\ constructed = "ok"
    /\ http_client = "None"
    /\ http_client' = "open"
    /\ UNCHANGED <<token_arg, API_TOKEN, token, wall, constructed, warned,
                   clientVars, cleanVars, pipeVars, batchVars, lockVars>>

\* __aexit__: if self._client: await self._client.aclose()
Exit ==
    /\ http_client = "open"
    /\ http_client' = "closed"
    /\ UNCHANGED <<token_arg, API_TOKEN, token, wall, constructed, warned,
                   clientVars, cleanVars, pipeVars, batchVars, lockVars>>

\* the wall clock advances before the client is constructed, by half the
\* warning threshold at a time
WallStep == TOKEN_WARN_SECONDS \div 2

WallTick ==
    /\ constructed = "none"
    /\ wall < MaxWall * WallStep
    /\ wall' = wall + WallStep
    /\ UNCHANGED <<token_arg, API_TOKEN, token, constructed, http_client, warned,
                   clientVars, cleanVars, pipeVars, batchVars, lockVars>>

\* the tokens a client is constructed with
ExpSeconds == {0, 300, 600, 899, 900, 1200, 1500}
Payloads ==
    {TextSegment, BytesSegment}
        \cup {JsonSegment(v) : v \in {JNull, JList(<<>>), JDict(<<>>),
                                       JDict(<<ScalarEntry(K_sub, Str(K_sub))>>),
                                       JDict(<<ScalarEntry(K_exp, NullCell)>>),
                                       JDict(<<ScalarEntry(K_exp, Str(K_sub))>>)}}
        \cup {JsonSegment(ExpClaim(e)) : e \in ExpSeconds}
OpaqueToken == <<TextSegment>>
Tokens == {NoToken, OpaqueToken} \cup {<<TextSegment, p, TextSegment>> : p \in Payloads}

\* a client constructed with a token that is no JWT, inside `async with`
ClientReady ==
    /\ token_arg = OpaqueToken
    /\ API_TOKEN = NoToken
    /\ token = OpaqueToken
    /\ wall = 0
    /\ constructed = "ok"
    /\ http_client = "open"
    /\ warned = 0

\* the module has been imported with some FAOSTAT_API_TOKEN in the
\* environment, and no client has been constructed
CtorInit ==
    /\ clock = 0
    /\ ClientInit
    /\ token_arg = NoToken
    /\ API_TOKEN \in {NoToken, OpaqueToken, <<TextSegment, JsonSegment(ExpClaim(600)), TextSegment>>}
    /\ token = NoToken
    /\ wall = 0
    /\ constructed = "none"
    /\ http_client = "None"
    /\ warned = 0

NextCtor ==
    \/ WallTick
    \/ \E arg \in Tokens : Construct(arg)
    \/ Enter
    \/ Exit

\* no earlier clean_data call has stamped a frame
NoStamp == [time |-> 0, value |-> NullCell]

\* clean_data has not been called
CleanIdle ==
    /\ rawInput = JNull
    /\ stage = "idle"
    /\ extracted = Extracted(<<>>)
    /\ frame = EmptyFrame
    /\ fetched_at = 0
    /\ invocations = 0
    /\ prev_fetched_at = NoStamp

\* run_pipeline_batch has not been called
BatchIdle ==
    /\ domain_codes = <<>>
    /\ code_idx = 0
    /\ results = {}
    /\ console = <<>>

\* no pipeline has been started
PipeIdle ==
    /\ ppc = "idle"
    /\ entry = "none"
    /\ to_csv = TRUE
    /\ to_parquet = TRUE
    /\ check_size_first = TRUE
    /\ sizing = "none"
    /\ calls = <<>>
    /\ partitions = {}
    /\ partition_col = C_year
    /\ fetched = JNull
    /\ cleaned = EmptyFrame
    /\ written = {}
    /\ files = {}
    /\ failure = "none"

\* the module has just been imported: _last_request_time is 0.0 and the
\* monotonic clock reads anything from 0 on
Init ==
    /\ clock \in 0 .. MIN_INTERVAL
    /\ ClientInit
    /\ CleanIdle
    /\ PipeIdle
    /\ BatchIdle
    /\ ClientReady

\* the module has been imported and nothing else has run
CtorStart ==
    /\ CtorInit
    /\ CleanIdle
    /\ PipeIdle
    /\ BatchIdle

SpecCtor == CtorStart /\ [][NextCtor]_vars

\* time passes
Tick(limit) ==
    /\ clock < limit
    /\ clock' = clock + 1
    /\ UNCHANGED <<last_request_time, rate_lock, pc, wake, attempt,
                   outcomes, result, permits, firstPermit, requests>>
    /\ UNCHANGED nonClientVars

\* a caller calls client.get or client.post: the first attempt enters _throttle
BeginCall(c) ==
    /\ pc[c] = "idle"
    /\ pc' = [pc EXCEPT ![c] = "lock"]
    /\ attempt' = [attempt EXCEPT ![c] = 1]
    /\ UNCHANGED <<clock, last_request_time, rate_lock, wake, outcomes, result,
                   permits, firstPermit, requests>>

StartCall(c) == BeginCall(c) /\ UNCHANGED nonClientVars

\* _throttle up to its first suspension: take the lock, read the clock, and
\* either sleep holding the lock or record the dispatch and release
Throttle(c) ==
    /\ pc[c] = "lock"
    /\ LockFree
    /\ LET elapsed == clock - last_request_time IN
       IF elapsed < MIN_INTERVAL
       THEN /\ rate_lock' = c
            /\ wake' = [wake EXCEPT ![c] = clock + SleepFor(elapsed)]
            /\ pc' = [pc EXCEPT ![c] = "sleep"]
            /\ UNCHANGED <<last_request_time, permits, firstPermit>>
       ELSE /\ RecordDispatch
            /\ pc' = [pc EXCEPT ![c] = AfterThrottle]
            /\ UNCHANGED <<rate_lock, wake>>
    /\ UNCHANGED <<clock, attempt, outcomes, result, requests>>

\* the lock is taken at once: nobody is suspended in acquire()
Acquire(c) == Throttle(c) /\ UNCHANGED nonClientVars

\* _throttle after asyncio.sleep returns: record the dispatch, release the lock
WakeUp(c) ==
    /\ pc[c] = "sleep"
    /\ clock >= wake[c]
    /\ RecordDispatch
    /\ rate_lock' = Release(c)
    /\ wake' = [wake EXCEPT ![c] = 0]
    /\ pc' = [pc EXCEPT ![c] = AfterThrottle]
    /\ UNCHANGED <<clock, attempt, outcomes, result, requests>>
    /\ UNCHANGED nonClientVars

----------------------------------------------------------------------------
(* FAOSTATClient.get / FAOSTATClient.post under tenacity's retry *)

\* self._client.get(path, params) / self._client.post(path, json)
Send(c) ==
    /\ pc[c] = AfterThrottle
    /\ requests' = requests + 1
    /\ pc' = [pc EXCEPT ![c] = "wait"]
    /\ UNCHANGED <<clock, last_request_time, rate_lock, wake, attempt,
                   outcomes, result, permits, firstPermit>>
    /\ UNCHANGED nonClientVars

\* the attempt ends with response r; tenacity decides what follows
Respond(c, r) ==
    /\ pc[c] = "wait"
    /\ outcomes' = [outcomes EXCEPT ![c] = Append(@, r.status)]
    /\ LET exc == ExceptionOf(r)
           n == attempt[c]
       IN IF ~RetryOnTransient(exc, r.status)
          THEN /\ result' = [result EXCEPT ![c] = AttemptOutcome(r, n)]
               /\ pc' = [pc EXCEPT ![c] = "done"]
               /\ UNCHANGED wake
          ELSE IF StopAfterAttempt(n)
          THEN /\ result' = [result EXCEPT ![c] = Reraise(exc, n, r.status)]
               /\ pc' = [pc EXCEPT ![c] = "done"]
               /\ UNCHANGED wake
          ELSE /\ wake' = [wake EXCEPT ![c] = clock + WaitExponential(n) * Second]
               /\ pc' = [pc EXCEPT ![c] = "backoff"]
               /\ UNCHANGED result
    /\ UNCHANGED <<clock, last_request_time, rate_lock, attempt,
                   permits, firstPermit, requests>>
    /\ UNCHANGED nonClientVars

\* the backoff wait is over: the next attempt calls the function again
Retry(c) ==
    /\ pc[c] = "backoff"
    /\ clock >= wake[c]
    /\ attempt' = [attempt EXCEPT ![c] = @ + 1]
    /\ pc' = [pc EXCEPT ![c] = RetryEntry]
    /\ wake' = [wake EXCEPT ![c] = 0]
    /\ UNCHANGED <<clock, last_request_time, rate_lock, outcomes,
                   result, permits, firstPermit, requests>>
    /\ UNCHANGED nonClientVars

\* the caller has its result (or exception) and is free to call again
EndCall(c) ==
    /\ pc[c] = "done"
    /\ pc' = [pc EXCEPT ![c] = "idle"]
    /\ attempt' = [attempt EXCEPT ![c] = 0]
    /\ outcomes' = [outcomes EXCEPT ![c] = <<>>]
    /\ result' = [result EXCEPT ![c] = NoResult]
    /\ UNCHANGED <<clock, last_request_time, rate_lock, wake, permits,
                   firstPermit, requests>>

Return(c) == EndCall(c) /\ UNCHANGED nonClientVars

Next ==
    \/ Tick(MaxClock)
    \/ \E c \in Callers : StartCall(c)
    \/ \E c \in Callers : Acquire(c)
    \/ \E c \in Callers : WakeUp(c)
    \/ \E c \in Callers : Send(c)
    \/ \E c \in Callers, r \in LimiterResponses : Respond(c, r)
    \/ \E c \in Callers : Retry(c)
    \/ \E c \in Callers : Return(c)

Spec == Init /\ [][Next]_vars

----------------------------------------------------------------------------
(* The limiter with the waiters of asyncio.Lock, for its progress *)

\* the ticks one call can wait for the clock: its backoff waits, and the
\* sleep of _throttle in each of its attempts
CallTicks ==
    (WaitExponential(1) + WaitExponential(2)) * Second
        + STOP_AFTER_ATTEMPT * MIN_INTERVAL

\* the ticks in which every call that has started comes to its end, whatever
\* the order in which the callers run: a call of every caller, and the calls
\* that ended while calls could still start
DrainTicks == (NumCallers + 1 + MaxLiveStart) * CallTicks
MaxLiveClock == MaxLiveStart + DrainTicks

\* time passes while calls may start, and while a caller waits for the clock
LiveTick ==
    /\ clock <= MaxLiveStart \/ \E c \in Callers : pc[c] \in {"sleep", "backoff"} /\ clock < wake[c]
    /\ Tick(MaxLiveClock)

\* a call starts while the clock leaves it the time to end
LiveStart(c) == clock <= MaxLiveStart /\ StartCall(c)

\* _rate_lock.acquire() with the lock held or callers suspended before this
\* one: the caller is appended to the waiters and suspended
Suspend(c) ==
    /\ pc[c] = "lock"
    /\ \A i \in 1 .. Len(waiters) : waiters[i] # c
    /\ rate_lock # 0 \/ waiters # <<>>
    /\ waiters' = Append(waiters, c)
    /\ UNCHANGED <<clientVars, cleanVars, pipeVars, batchVars, ctorVars>>

\* _rate_lock.acquire() returns: at once when the lock is free and nobody
\* is suspended, else for the first of the waiters once the lock is free
LockAcquire(c) ==
    /\ IF waiters = <<>> THEN TRUE ELSE Head(waiters) = c
    /\ Throttle(c)
    /\ waiters' = IF waiters = <<>> THEN <<>> ELSE Tail(waiters)
    /\ UNCHANGED <<cleanVars, pipeVars, batchVars, ctorVars>>

\* the servers answer 200 with JSON, or 503
LiveResponses == {r \in LimiterResponses : r.status \in {200, 503}}

NextLive ==
    \/ LiveTick
    \/ \E c \in Callers : LiveStart(c)
    \/ \E c \in Callers : Suspend(c)
    \/ \E c \in Callers : LockAcquire(c)
    \/ \E c \in Callers : WakeUp(c)
    \/ \E c \in Callers : Send(c)
    \/ \E c \in Callers, r \in LiveResponses : Respond(c, r)
    \/ \E c \in Callers : Retry(c)
    \/ \E c \in Callers : Return(c)

\* the event loop lets time pass and runs every task that is ready
LiveFairness ==
    /\ WF_vars(LiveTick)
    /\ \A c \in Callers :
          /\ WF_vars(Suspend(c))
          /\ WF_vars(LockAcquire(c))
          /\ WF_vars(WakeUp(c))

SpecLive == Init /\ [][NextLive]_vars /\ LiveFairness

\* one caller against a server that may answer anything
NextRetry ==
    \/ Tick(MaxRetryClock)
    \/ StartCall(1)
    \/ Acquire(1)
    \/ WakeUp(1)
    \/ Send(1)
    \/ \E r \in Responses : Respond(1, r)
    \/ Retry(1)
    \/ Return(1)

SpecRetry == Init /\ [][NextRetry]_vars

----------------------------------------------------------------------------
(* cleaner.py: clean_data, one action per statement *)

\* the label pandas gives the only column of a frame built from bare values
INT_LABEL == <<"<int 0>">>

\* records = _extract_records(raw); an empty result returns pd.DataFrame()
ExtractStep ==
    /\ stage = "called"
    /\ LET x == ExtractRecords(rawInput) IN
       /\ extracted' = x
       /\ stage' = IF x.raised THEN "raised"
                   ELSE IF ExtractedLen(x) = 0 THEN "returned"
                   ELSE "extracted"
    /\ UNCHANGED <<rawInput, frame, fetched_at, invocations, prev_fetched_at,
                   clientVars, pipeVars, batchVars, ctorVars, lockVars>>

\* df = pd.DataFrame(records)
FrameStep ==
    /\ stage = "extracted"
    /\ frame' = IF extracted.bare # <<>>
                THEN Frame(<<INT_LABEL>>, <<extracted.bare>>)
                ELSE BuildFrame(extracted.recs)
    /\ stage' = "framed"
    /\ UNCHANGED <<rawInput, extracted, fetched_at, invocations, prev_fetched_at,
                   clientVars, pipeVars, batchVars, ctorVars, lockVars>>

\* df = _normalize_columns(df); re.sub raises TypeError on a label that is no string
NormalizeStep ==
    /\ stage = "framed"
    /\ IF INT_LABEL \in Range(frame.cols)
       THEN stage' = "raised" /\ UNCHANGED frame
       ELSE stage' = "normalized" /\ frame' = NormalizeColumns(frame)
    /\ UNCHANGED <<rawInput, extracted, fetched_at, invocations, prev_fetched_at,
                   clientVars, pipeVars, batchVars, ctorVars, lockVars>>

\* df = _cast_types(df)
CastStep ==
    /\ stage = "normalized"
    /\ IF CastRaises(frame)
       THEN stage' = "raised" /\ UNCHANGED frame
       ELSE stage' = "cast" /\ frame' = CastTypes(frame)
    /\ UNCHANGED <<rawInput, extracted, fetched_at, invocations, prev_fetched_at,
                   clientVars, pipeVars, batchVars, ctorVars, lockVars>>

\* df = _drop_empty_rows(df)
DropStep ==
    /\ stage = "cast"
    /\ frame' = DropEmptyRows(frame)
    /\ stage' = "dropped"
    /\ UNCHANGED <<rawInput, extracted, fetched_at, invocations, prev_fetched_at,
                   clientVars, pipeVars, batchVars, ctorVars, lockVars>>

\* df = df.drop_duplicates()
DedupStep ==
    /\ stage = "dropped"
    /\ frame' = DropDuplicates(frame)
    /\ stage' = "deduped"
    /\ UNCHANGED <<rawInput, extracted, fetched_at, invocations, prev_fetched_at,
                   clientVars, pipeVars, batchVars, ctorVars, lockVars>>

\* df["fetched_at"] = datetime.now(tz=timezone.utc).isoformat(); return df
StampStep(t) ==
    /\ stage = "deduped"
    /\ frame' = AddFetchedAt(frame, t)
    /\ fetched_at' = t
    /\ stage' = "returned"
    /\ UNCHANGED <<rawInput, extracted, invocations, prev_fetched_at,
                   clientVars, pipeVars, batchVars, ctorVars, lockVars>>

----------------------------------------------------------------------------
(* The raw responses clean_data is given *)

K_Year == <<"Y", "e", "a", "r">>
K_Value == <<"V", "a", "l", "u", "e">>
K_status == <<"s", "t", "a", "t", "u", "s">>
V_2020 == <<"2", "0", "2", "0">>
V_x == <<"x">>
V_55 == <<"5", ".", "5">>

CellValues == {NullCell, Str(V_2020), Str(V_x), Str(V_55), Num(2020 * Scale)}
KeyOrders == {<<>>, <<K_Year>>, <<K_Year, K_Value>>}

\* every record over one of the key orders
Records ==
    UNION {{[i \in 1 .. Len(ks) |-> Field(ks[i], f[i])] : f \in [1 .. Len(ks) -> CellValues]}
           : ks \in KeyOrders}

\* records that bring a fetched_at field of their own
StampedRecords ==
    {<<Field(K_Year, y), Field(C_fetched_at, Str(s))>> :
        y \in {Str(V_2020), NullCell}, s \in {V_x, V_55}}

RecordLists == UNION {[1 .. n -> Records \cup StampedRecords] : n \in 0 .. MaxRows}

\* a mapping that holds, under each wrapper key, nothing, an empty list, a
\* list of one record that names the key, or a scalar; with or without a
\* status entry
EnvelopeChoices == {"absent", "empty", "one", "scalar"}

EnvelopeEntry(i, choice) ==
    CASE choice = "empty" -> ListEntry(WrapperKeys[i], <<>>)
      [] choice = "one" -> ListEntry(WrapperKeys[i], <<<<Field(WrapperKeys[i], Str(V_x))>>>>)
      [] OTHER -> ScalarEntry(WrapperKeys[i], Str(V_x))

EnvelopeOf(f, withStatus) ==
    JDict(SelectIdx([i \in 1 .. 4 |-> EnvelopeEntry(i, f[i])],
                    {i \in 1 .. 4 : f[i] # "absent"}, 1)
          \o (IF withStatus THEN <<ScalarEntry(K_status, Num(200 * Scale))>> ELSE <<>>))

Envelopes == {EnvelopeOf(f, b) : f \in [1 .. 4 -> EnvelopeChoices], b \in BOOLEAN}

Scalars ==
    {JNull,
     JScalar("num", Num(5 * Scale)),
     JScalar("bool", Num(Scale)),
     JScalar("str", Str(<<>>)),
     JScalar("str", Str(<<"a", "b", "c">>)),
     JScalar("str", Str(<<"x", "d", "a", "t", "a">>))}

\* {"data":[{"Year":"2020","Value":"5.5"},{"Year":"x","Value":null}]}
ScenarioA ==
    JDict(<<ListEntry(K_data,
                      <<<<Field(K_Year, Str(V_2020)), Field(K_Value, Str(V_55))>>,
                        <<Field(K_Year, Str(V_x)), Field(K_Value, NullCell)>>>>)>>)

RawInputs == {JList(l) : l \in RecordLists} \cup Envelopes \cup Scalars \cup {ScenarioA}

\* clean_data(raw) has been called on one of the raw responses
CleanInit ==
    /\ clock = 0
    /\ ClientInit
    /\ rawInput \in RawInputs
    /\ stage = "called"
    /\ extracted = Extracted(<<>>)
    /\ frame = EmptyFrame
    /\ fetched_at = 0
    /\ invocations = 1
    /\ prev_fetched_at = NoStamp
    /\ PipeIdle
    /\ BatchIdle
    /\ ClientReady

\* the caller is through with what clean_data returned or raised; the
\* timestamp of the call is remembered
CleanDone ==
    /\ stage \in {"returned", "raised"}
    /\ prev_fetched_at' = IF stage = "returned" /\ fetched_at # 0
                          THEN [time |-> fetched_at, value |-> Stamp(fetched_at)]
                          ELSE NoStamp
    /\ rawInput' = JNull
    /\ stage' = "idle"
    /\ extracted' = Extracted(<<>>)
    /\ frame' = EmptyFrame
    /\ fetched_at' = 0
    /\ UNCHANGED <<invocations, clientVars, pipeVars, batchVars, ctorVars, lockVars>>

\* clean_data(r) is called once more
CleanCall(r) ==
    /\ stage = "idle"
    /\ invocations < MaxInvocations
    /\ invocations' = invocations + 1
    /\ rawInput' = r
    /\ stage' = "called"
    /\ UNCHANGED <<extracted, frame, fetched_at, prev_fetched_at,
                   clientVars, pipeVars, batchVars, ctorVars, lockVars>>

NextClean ==
    \/ CleanDone
    \/ \E r \in RawInputs : CleanCall(r)
    \/ ExtractStep
    \/ FrameStep
    \/ NormalizeStep
    \/ CastStep
    \/ DropStep
    \/ DedupStep
    \/ \E t \in 1 .. MaxStamp : StampStep(t)

SpecClean == CleanInit /\ [][NextClean]_vars

----------------------------------------------------------------------------
(* pipeline.py: _response_has_data, run_pipeline; cli.py: fetch; exporter.py: export *)

RECURSIVE HasDataScan(_, _)
\* the for loop of _response_has_data, from the i-th key on
HasDataScan(r, i) ==
    IF i > Len(WrapperKeys) THEN FALSE
    ELSE IF HasKey(r.ents, WrapperKeys[i]) /\ EntryOf(r.ents, WrapperKeys[i]).isList
    THEN Len(EntryOf(r.ents, WrapperKeys[i]).recs) > 0
    ELSE HasDataScan(r, i + 1)

\* every response is taken to carry data
ResponseHasData_Always(r) == TRUE

\* a mapping carries data when any wrapper key holds a list that is not
\* empty, whichever key comes first
ResponseHasData_AnyList(r) ==
    IF r.t = "list" THEN Len(r.recs) > 0
    ELSE IF r.t = "dict"
    THEN \E i \in 1 .. Len(WrapperKeys) :
            /\ HasKey(r.ents, WrapperKeys[i])
            /\ EntryOf(r.ents, WrapperKeys[i]).isList
            /\ Len(EntryOf(r.ents, WrapperKeys[i]).recs) > 0
    ELSE FALSE

\* a response carries data when the extractor finds a record in it
ResponseHasData_Extractable(r) ==
    r.t \in {"list", "dict"} /\ ExtractedLen(ExtractRecords(r)) > 0

\* _response_has_data
ResponseHasData(r) ==
    IF r.t = "null" THEN FALSE
    ELSE IF r.t = "list" THEN Len(r.recs) > 0
    ELSE IF r.t = "dict" THEN HasDataScan(r, 1)
    ELSE FALSE

\* clean_data as one call: the frame it returns, or that it raised
CleanData(r, t) ==
    LET x == ExtractRecords(r) IN
    IF x.raised THEN [raised |-> TRUE, df |-> EmptyFrame]
    ELSE IF ExtractedLen(x) = 0 THEN [raised |-> FALSE, df |-> EmptyFrame]
    ELSE IF x.bare # <<>> THEN [raised |-> TRUE, df |-> EmptyFrame]
    ELSE LET n == NormalizeColumns(BuildFrame(x.recs)) IN
         IF CastRaises(n) THEN [raised |-> TRUE, df |-> EmptyFrame]
         ELSE [raised |-> FALSE,
               df |-> AddFetchedAt(DropDuplicates(DropEmptyRows(CastTypes(n))), t)]

\* the domain code the running pipeline was given
DefaultDomain == "QCL"
DomainCode == IF code_idx = 0 THEN DefaultDomain ELSE domain_codes[code_idx]

\* Path(output_dir) / domain_code, and a file in it
DomainDir(code) == [domain |-> code, name |-> ""]
DomainFile(code, name) == [domain |-> code, name |-> name]

\* both files are written whatever was asked for
ExportFormats_Both(csv, parquet) == {"csv", "parquet"}

\* export: the formats it handles, in the order of its if statements
ExportFormats(csv, parquet) ==
    (IF csv THEN {"csv"} ELSE {}) \cup (IF parquet THEN {"parquet"} ELSE {})

\* the dict export returns: one (format, path) entry per file written
ExportWritten(code, csv, parquet) ==
    {[fmt |-> f, path |-> DomainFile(code, IF f = "csv" THEN "data.csv" ELSE "data.parquet")]
        : f \in ExportFormats(csv, parquet)}

\* what export leaves on the file system: the domain directory and the files
ExportFiles(code, csv, parquet) ==
    {DomainDir(code)}
        \cup (IF csv THEN {DomainFile(code, "data.csv")} ELSE {})
        \cup (IF parquet THEN {DomainFile(code, "data.parquet")} ELSE {})

\* what the client hands back for a response that raised nothing: the JSON
\* payload, {"status": 200} or {"status": 200, "text": ...}
K_text == <<"t", "e", "x", "t">>
StatusDescriptor == JDict(<<ScalarEntry(K_status, Num(200 * Scale))>>)
StatusTextDescriptor ==
    JDict(<<ScalarEntry(K_status, Num(200 * Scale)), ScalarEntry(K_text, Str(V_x))>>)

\* the JSON payloads the data endpoint answers with
AllNullList == JList(<<<<Field(K_Year, Str(V_x)), Field(K_Value, NullCell)>>>>)
K_status_code == <<"s", "t", "a", "t", "u", "s", "_", "c", "o", "d", "e">>
K_message == <<"m", "e", "s", "s", "a", "g", "e">>
K_description == <<"d", "e", "s", "c", "r", "i", "p", "t", "i", "o", "n">>

\* an error envelope: status_code 0, a status, an empty message, a description
ErrorEnvelope ==
    JDict(<<ScalarEntry(K_status_code, Num(0)), ScalarEntry(K_status, Str(V_55)),
            ScalarEntry(K_message, Str(<<>>)), ScalarEntry(K_description, Str(V_x)),
            ScalarEntry(K_text, Str(V_2020))>>)

PipePayloads ==
    {ScenarioA, JList(<<>>), JNull, AllNullList,
     JList(<<<<Field(K_Year, Str(V_2020))>>>>),
     JDict(<<ListEntry(K_results, <<>>)>>),
     JDict(<<>>),
     JDict(<<ScalarEntry(K_data, Str(V_x))>>),
     ErrorEnvelope}

ReturnedValues(form) ==
    IF form = "json" THEN PipePayloads
    ELSE IF form = "status" THEN {StatusDescriptor}
    ELSE {StatusTextDescriptor}

\* the call the pipeline makes next, after the one that just ended
NextCall(c) ==
    /\ pc' = [pc EXCEPT ![c] = "lock"]
    /\ attempt' = [attempt EXCEPT ![c] = 1]
    /\ outcomes' = [outcomes EXCEPT ![c] = <<>>]
    /\ result' = [result EXCEPT ![c] = NoResult]
    /\ UNCHANGED <<clock, last_request_time, rate_lock, wake, permits,
                   firstPermit, requests>>

\* cli.py fetch with one domain code: --no-csv and --no-parquet together abort
\* before run_pipeline is called; check_size_first keeps its default
CliRejects(csv, parquet) == ~csv /\ ~parquet

\* run_pipeline validates nothing before it opens the client
ApiRejects(csv, parquet) == FALSE

\* run_pipeline up to its first request: the sizing POST, or the data GET
EnterPipeline(how, csv, parquet, size) ==
    /\ ppc = "idle"
    /\ entry' = how
    /\ to_csv' = csv
    /\ to_parquet' = parquet
    /\ check_size_first' = size
    /\ IF (how = "cli" /\ CliRejects(csv, parquet)) \/ (how = "api" /\ ApiRejects(csv, parquet))
       THEN /\ ppc' = "rejected"
            /\ failure' = "NoFormat"
            /\ UNCHANGED <<clientVars, calls>>
       ELSE /\ ppc' = IF size THEN "sizing" ELSE "fetching"
            /\ calls' = IF size THEN <<"get_datasize">> ELSE <<"get_data">>
            /\ failure' = "none"
            /\ BeginCall(1)
    /\ UNCHANGED <<fetched, cleaned, written, files, sizing, partitions, partition_col, cleanVars, batchVars, ctorVars, lockVars>>

CliFetch(csv, parquet) == EnterPipeline("cli", csv, parquet, TRUE)

RunPipeline(csv, parquet, size) == EnterPipeline("api", csv, parquet, size)

\* time passes while the pipeline sleeps in _throttle or in a backoff wait;
\* the pipeline is the only caller, so nothing else waits for the clock
PipeTick == pc[1] \in {"sleep", "backoff"} /\ clock < wake[1] /\ Tick(MaxPipeClock)

\* only the client's own exception classes are caught
ExceptException_ClientOnly(kind) ==
    kind \in {"FAOSTATAuthError", "FAOSTATRateLimitError", "HTTPStatusError", "TransportError"}

\* the exception classes that can arise in run_pipeline: all derive from Exception
ExceptionClasses ==
    {"FAOSTATAuthError", "FAOSTATRateLimitError", "HTTPStatusError", "TransportError",
     "AttributeError", "ValueError", "TypeError"}

\* except Exception
ExceptException(kind) == kind \in ExceptionClasses

\* what get_datasize hands back for a JSON body
K_count == <<"c", "o", "u", "n", "t">>
SizeInfo == JDict(<<ScalarEntry(K_count, Num(2 * Scale))>>)
SizePayloads == {SizeInfo, JList(<<>>), JNull}

SizeReturned(form) ==
    IF form = "json" THEN SizePayloads
    ELSE IF form = "status" THEN {StatusDescriptor}
    ELSE {StatusTextDescriptor}

\* how the try block of the sizing step ends: size_info.get raises
\* AttributeError on a size_info that is no dict
SizingOutcome(res, v) ==
    IF res.kind # "ok" THEN res.kind
    ELSE IF v.t # "dict" THEN "AttributeError"
    ELSE "estimated"

\* get_datasize has returned v or raised; an exception the handler catches is
\* dropped, and the data GET follows
SizingDone(v) ==
    /\ ppc = "sizing"
    /\ pc[1] = "done"
    /\ IF result[1].kind = "ok" THEN v \in SizeReturned(result[1].form) ELSE v = JNull
    /\ LET o == SizingOutcome(result[1], v) IN
       /\ sizing' = o
       /\ IF o = "estimated" \/ ExceptException(o)
          THEN /\ ppc' = "fetching"
               /\ calls' = Append(calls, "get_data")
               /\ NextCall(1)
               /\ UNCHANGED failure
          ELSE /\ ppc' = "failed"
               /\ failure' = o
               /\ EndCall(1)
               /\ UNCHANGED calls
    /\ UNCHANGED <<entry, to_csv, to_parquet, check_size_first, partitions, partition_col, fetched, cleaned,
                   written, files, cleanVars, batchVars, ctorVars, lockVars>>

\* get_data has returned v, or raised and the exception leaves run_pipeline
FetchDone(v) ==
    /\ ppc = "fetching"
    /\ pc[1] = "done"
    /\ IF result[1].kind = "ok"
       THEN /\ v \in ReturnedValues(result[1].form)
            /\ fetched' = v
            /\ ppc' = "validating"
            /\ UNCHANGED failure
       ELSE /\ v = JNull
            /\ ppc' = "failed"
            /\ failure' = result[1].kind
            /\ UNCHANGED fetched
    /\ EndCall(1)
    /\ UNCHANGED <<entry, to_csv, to_parquet, check_size_first, sizing, calls, partitions, partition_col, cleaned,
                   written, files, cleanVars, batchVars, ctorVars, lockVars>>

\* one line of console output about a domain
Line(code, text, detail) == [code |-> code, text |-> text, detail |-> detail]

\* a value raw.get hands back: a list or a scalar; None and "" as defaults
Got(e) == [isList |-> e.isList, recs |-> e.recs, v |-> e.v]
GotNone == [isList |-> FALSE, recs |-> <<>>, v |-> NullCell]
GotEmptyStr == [isList |-> FALSE, recs |-> <<>>, v |-> Str(<<>>)]

\* raw.get(k, default)
RawGet(ents, k, default) == IF HasKey(ents, k) THEN Got(EntryOf(ents, k)) ELSE default

\* the truth value of a JSON value: None, 0, "" and [] are false
Truthy(g) ==
    IF g.isList THEN g.recs # <<>>
    ELSE IF g.v.t = "null" THEN FALSE
    ELSE IF g.v.t = "num" THEN g.v.n # 0
    ELSE g.v.s # <<>>

\* a or b
Or(a, b) == IF Truthy(a) THEN a ELSE b

\* list(raw.keys())
Keys(ents) == [i \in 1 .. Len(ents) |-> ents[i].k]

\* what run_pipeline prints when the response holds no data: the domain,
\* and for a dict its keys, its status and its message where they are set
NoDataLines(code, raw) ==
    <<Line(code, "no_data", "")>>
        \o (IF raw.t # "dict" THEN <<>>
            ELSE LET status == Or(RawGet(raw.ents, K_status_code, GotNone),
                                  RawGet(raw.ents, K_status, GotEmptyStr))
                     message == Or(Or(RawGet(raw.ents, K_message, GotNone),
                                      RawGet(raw.ents, K_description, GotEmptyStr)),
                                   RawGet(raw.ents, K_text, GotEmptyStr))
                 IN <<Line(code, "keys", Keys(raw.ents))>>
                        \o (IF Truthy(status) THEN <<Line(code, "status", status)>> ELSE <<>>)
                        \o (IF Truthy(message) THEN <<Line(code, "message", message)>> ELSE <<>>))

\* a value an f-string puts into a message, and what it is
Arg(kind, value) == [kind |-> kind, value |-> value]

\* str(exc) of the ValueError a run raises: its text and the values the
\* f-string puts into it
FailureMessage(f, code) ==
    IF f = "EmptyUpstream"
    THEN [text |-> "No records returned for domain", args |-> <<Arg("domain", code)>>]
    ELSE IF f = "EmptyAfterClean"
    THEN [text |-> "No usable records after cleaning for domain",
          args |-> <<Arg("domain", code)>>]
    ELSE [text |-> f, args |-> <<>>]

\* if not _response_has_data(raw): the diagnostics are printed, then
\* raise ValueError("No records returned ...")
ValidateRaw ==
    /\ ppc = "validating"
    /\ IF ResponseHasData(fetched)
       THEN ppc' = "cleaning" /\ UNCHANGED <<failure, console>>
       ELSE /\ ppc' = "failed"
            /\ failure' = "EmptyUpstream"
            /\ console' = console \o NoDataLines(DomainCode, fetched)
    /\ UNCHANGED <<entry, to_csv, to_parquet, check_size_first, sizing, calls, partitions, partition_col, fetched, cleaned,
                   written, files, cleanVars, domain_codes, code_idx, results, ctorVars, lockVars, clientVars>>

\* df = clean_data(raw)
CleanFetched(t) ==
    /\ ppc = "cleaning"
    /\ LET c == CleanData(fetched, t) IN
       IF c.raised
       THEN ppc' = "failed" /\ failure' = "TypeError" /\ UNCHANGED cleaned
       ELSE ppc' = "validating_clean" /\ cleaned' = c.df /\ UNCHANGED failure
    /\ UNCHANGED <<entry, to_csv, to_parquet, check_size_first, sizing, calls, partitions, partition_col, fetched,
                   written, files, cleanVars, batchVars, ctorVars, lockVars, clientVars>>

\* if df.empty: raise ValueError("No usable records after cleaning ...")
ValidateClean ==
    /\ ppc = "validating_clean"
    /\ IF FrameEmpty(cleaned)
       THEN ppc' = "failed" /\ failure' = "EmptyAfterClean"
       ELSE ppc' = "exporting" /\ UNCHANGED failure
    /\ UNCHANGED <<entry, to_csv, to_parquet, check_size_first, sizing, calls, partitions, partition_col, fetched,
                   cleaned, written, files, cleanVars, batchVars, ctorVars, lockVars, clientVars>>

\* the class of the exception a failed run raised
ErrorClass(f) ==
    IF f \in {"EmptyUpstream", "EmptyAfterClean", "NothingToExport", "MissingPartitionColumn"}
    THEN "ValueError"
    ELSE f

\* written = export(df, ...); return written
ExportCleaned ==
    /\ ppc = "exporting"
    /\ IF FrameEmpty(cleaned)
       THEN ppc' = "failed" /\ failure' = "NothingToExport" /\ UNCHANGED <<written, files>>
       ELSE /\ ppc' = "done"
            /\ written' = ExportWritten(DomainCode, to_csv, to_parquet)
            /\ files' = files \cup ExportFiles(DomainCode, to_csv, to_parquet)
            /\ UNCHANGED failure
    /\ UNCHANGED <<entry, to_csv, to_parquet, check_size_first, sizing, calls, partitions, partition_col, fetched, cleaned,
                   cleanVars, batchVars, ctorVars, lockVars, clientVars>>

NextPipe ==
    \/ PipeTick
    \/ \E csv, parquet \in BOOLEAN : CliFetch(csv, parquet)
    \/ \E csv, parquet, size \in BOOLEAN : RunPipeline(csv, parquet, size)
    \/ Acquire(1)
    \/ WakeUp(1)
    \/ Send(1)
    \/ \E r \in PipeResponses : Respond(1, r)
    \/ Retry(1)
    \/ \E v \in SizePayloads \cup {StatusDescriptor, StatusTextDescriptor} : SizingDone(v)
    \/ \E v \in PipePayloads \cup {StatusDescriptor, StatusTextDescriptor} : FetchDone(v)
    \/ ValidateRaw
    \/ \E t \in 1 .. MaxStamp : CleanFetched(t)
    \/ ValidateClean
    \/ ExportCleaned

SpecPipe == Init /\ [][NextPipe]_vars

----------------------------------------------------------------------------
(* pipeline.py: run_pipeline_batch *)

DomainCodes == {"QCL", "TM", "FS"}
DomainLists == UNION {[1 .. n -> DomainCodes] : n \in 0 .. MaxDomains}

\* for fmt, path in written.items(): console.print(...), csv before parquet
WrittenLines(code, w) ==
    (IF \E e \in w : e.fmt = "csv" THEN <<Line(code, "written", "csv")>> ELSE <<>>)
        \o (IF \E e \in w : e.fmt = "parquet" THEN <<Line(code, "written", "parquet")>> ELSE <<>>)

\* results[code] = written
SetResult(res, code, w) ==
    {e \in res : e.code # code} \cup {[code |-> code, written |-> w]}

\* await run_pipeline(domain_code=code, ...): a fresh call, check_size_first
\* at its default, up to its first request
BeginRun ==
    /\ ppc' = "sizing"
    /\ calls' = <<"get_datasize">>
    /\ failure' = "none"
    /\ sizing' = "none"
    /\ fetched' = JNull
    /\ cleaned' = EmptyFrame
    /\ written' = {}
    /\ BeginCall(1)

\* run_pipeline_batch(codes, to_csv=csv, to_parquet=parquet) up to the first
\* request of the first domain; with no domain the loop does not run
BatchCall(codes, csv, parquet) ==
    /\ ppc = "idle"
    /\ entry = "none"
    /\ entry' = "batch"
    /\ domain_codes' = codes
    /\ results' = {}
    /\ to_csv' = csv
    /\ to_parquet' = parquet
    /\ check_size_first' = TRUE
    /\ IF codes = <<>>
       THEN /\ code_idx' = 0
            /\ ppc' = "returned"
            /\ UNCHANGED <<console, failure, sizing, calls, fetched, cleaned, written, clientVars>>
       ELSE /\ code_idx' = 1
            /\ console' = <<Line(codes[1], "processing", "")>>
            /\ BeginRun
    /\ UNCHANGED <<files, partitions, partition_col, cleanVars, ctorVars, lockVars>>

\* the run of the current domain is over: its result is stored, or its
\* exception is caught and printed; the loop goes on to the next domain, or
\* the batch returns results
BatchStep ==
    /\ entry = "batch"
    /\ ppc \in {"done", "failed"}
    /\ LET code == domain_codes[code_idx]
           caught == ppc = "failed" /\ ExceptException(ErrorClass(failure))
           lines == IF ppc = "done" THEN WrittenLines(code, written)
                    ELSE IF caught THEN <<Line(code, "failed", failure)>>
                    ELSE <<>>
       IN /\ results' = IF ppc = "done" THEN SetResult(results, code, written) ELSE results
          /\ IF ppc = "failed" /\ ~caught
             THEN /\ ppc' = "batch_failed"
                  /\ console' = console \o lines
                  /\ UNCHANGED <<code_idx, failure, sizing, calls, fetched, cleaned, written, clientVars>>
             ELSE IF code_idx < Len(domain_codes)
             THEN /\ code_idx' = code_idx + 1
                  /\ console' = console \o lines
                                  \o <<Line(domain_codes[code_idx + 1], "processing", "")>>
                  /\ BeginRun
             ELSE /\ code_idx' = 0
                  /\ ppc' = "returned"
                  /\ console' = console \o lines
                  /\ UNCHANGED <<failure, sizing, calls, fetched, cleaned, written, clientVars>>
    /\ UNCHANGED <<entry, domain_codes, to_csv, to_parquet, check_size_first, files,
                   partitions, partition_col, cleanVars, ctorVars, lockVars>>

\* the server of the batch specification answers 200 with JSON, or 401
BatchResponses == {r \in Responses : (r.status = 200 /\ r.body = "json") \/ r.status = 401}
BatchPayloads == {ScenarioA, JList(<<>>)}

NextBatch ==
    \/ PipeTick
    \/ \E codes \in DomainLists, csv, parquet \in BOOLEAN : BatchCall(codes, csv, parquet)
    \/ Acquire(1)
    \/ WakeUp(1)
    \/ Send(1)
    \/ \E r \in BatchResponses : Respond(1, r)
    \/ SizingDone(SizeInfo)
    \/ SizingDone(JNull)
    \/ \E v \in BatchPayloads : FetchDone(v)
    \/ FetchDone(JNull)
    \/ ValidateRaw
    \/ CleanFetched(1)
    \/ ValidateClean
    \/ ExportCleaned
    \/ BatchStep

SpecBatch == Init /\ [][NextBatch]_vars

----------------------------------------------------------------------------
(* Runs and batches against a server that answers 200 or 503 *)

\* the domain lists of these batches
AttemptDomainLists == UNION {[1 .. n -> {"QCL", "TM"}] : n \in 0 .. MaxAttemptDomains}

\* the clock runs as long as the calls of the longest batch can wait for it
MaxAttemptClock == MIN_INTERVAL + 2 * MaxAttemptDomains * (CallTicks + WaitExponential(3) * Second)

AttemptTick == pc[1] \in {"sleep", "backoff"} /\ clock < wake[1] /\ Tick(MaxAttemptClock)

AttemptResponses == {r \in Responses : (r.status = 200 /\ r.body = "json") \/ r.status = 503}

NextAttempts ==
    \/ AttemptTick
    \/ \E size \in BOOLEAN : RunPipeline(TRUE, TRUE, size)
    \/ \E codes \in AttemptDomainLists : BatchCall(codes, TRUE, TRUE)
    \/ Acquire(1)
    \/ WakeUp(1)
    \/ Send(1)
    \/ \E r \in AttemptResponses : Respond(1, r)
    \/ Retry(1)
    \/ SizingDone(SizeInfo)
    \/ SizingDone(JNull)
    \/ FetchDone(ScenarioA)
    \/ FetchDone(JNull)
    \/ ValidateRaw
    \/ CleanFetched(1)
    \/ ValidateClean
    \/ ExportCleaned
    \/ BatchStep

SpecAttempts == Init /\ [][NextAttempts]_vars

----------------------------------------------------------------------------
(* exporter.py: export and export_partitioned, called on a frame *)

\* every column is taken to be there
HasColumn_Always(df, col) == TRUE

\* partition_col in df.columns
HasColumn(df, col) == \E j \in 1 .. Len(df.cols) : df.cols[j] = col

\* the keys of df.groupby(partition_col): the values of the column, nulls left out
GroupKeys(df, col) ==
    {df.rows[i][j] : i \in 1 .. Len(df.rows),
                     j \in {h \in 1 .. Len(df.cols) : df.cols[h] = col}}
        \ {c \in {NullCell} : TRUE}

\* the group of a key: the rows of df whose cell in the column is the key
GroupRows(df, col, key) ==
    LET j == CHOOSE h \in 1 .. Len(df.cols) : df.cols[h] = col
    IN SelectIdx(df.rows, {i \in 1 .. Len(df.rows) : df.rows[i][j] = key}, 1)

\* base_dir / f"{partition_col}={value}" / "data.parquet"
PartitionFile(code, col, value) == [domain |-> code, col |-> col, value |-> value]

\* group.to_parquet(path): the file at path holds the rows of the group
PartitionWritten(code, df, col, key) ==
    [path |-> PartitionFile(code, col, key), rows |-> GroupRows(df, col, key)]

\* export_partitioned(df, domain_code, partition_col=col)
ExportPartitioned ==
    /\ ppc = "partitioning"
    /\ IF FrameEmpty(cleaned)
       THEN /\ ppc' = "failed"
            /\ failure' = "NothingToExport"
            /\ UNCHANGED <<written, files, partitions>>
       ELSE IF ~HasColumn(cleaned, partition_col)
       THEN /\ ppc' = "failed"
            /\ failure' = "MissingPartitionColumn"
            /\ UNCHANGED <<written, files, partitions>>
       ELSE LET made == {PartitionFile(DomainCode, partition_col, v)
                            : v \in GroupKeys(cleaned, partition_col)}
            IN /\ ppc' = "done"
               /\ written' = made
               /\ partitions' = partitions
                                   \cup {PartitionWritten(DomainCode, cleaned, partition_col, v)
                                            : v \in GroupKeys(cleaned, partition_col)}
               /\ files' = IF made = {} THEN files ELSE files \cup {DomainDir(DomainCode)}
               /\ UNCHANGED failure
    /\ UNCHANGED <<entry, to_csv, to_parquet, check_size_first, sizing, calls, partition_col,
                   fetched, cleaned, cleanVars, batchVars, ctorVars, lockVars, clientVars>>

\* the frames the exporter is called on: what clean_data gives for the
\* record lists, frames without rows and the frame without columns included
ExportFrames == {CleanData(JList(l), 1).df : l \in RecordLists}
PartitionCols == {C_year, C_value}

\* export(df, ...) or export_partitioned(df, ...) has been called
ExportInit ==
    /\ clock = 0
    /\ ClientInit
    /\ CleanIdle
    /\ BatchIdle
    /\ ClientReady
    /\ entry \in {"export", "export_partitioned"}
    /\ ppc = IF entry = "export" THEN "exporting" ELSE "partitioning"
    /\ cleaned \in ExportFrames
    /\ to_csv \in BOOLEAN
    /\ to_parquet \in BOOLEAN
    /\ partition_col \in PartitionCols
    /\ entry = "export" => partition_col = C_year
    /\ entry = "export_partitioned" => to_csv /\ to_parquet
    /\ check_size_first = TRUE
    /\ sizing = "none"
    /\ calls = <<>>
    /\ fetched = JNull
    /\ written = {}
    /\ files = {}
    /\ partitions = {}
    /\ failure = "none"

NextExport ==
    \/ ExportCleaned
    \/ ExportPartitioned

SpecExport == ExportInit /\ [][NextExport]_vars

----------------------------------------------------------------------------
(* Claims about the rate limiter and the retrying client *)

IsTransient(status) == status = TRANSPORT \/ status >= 500
IsSuccess(status) == status >= 200 /\ status < 300
LastOf(seq) == seq[Len(seq)]
Sending == {c \in Callers : pc[c] = "send"}

\* C1: whatever the interleaving of the callers, two successive permits record
\* dispatch times at least one minimum interval apart, so n permits take at
\* least (n - 1) minimum intervals from the first to the last.
C1_PermitSpacing ==
    /\ [][permits' = permits + 1 /\ permits >= 1
            => last_request_time' - last_request_time >= MIN_INTERVAL]_vars
    /\ [](permits >= 1
            => last_request_time - firstPermit >= (permits - 1) * MIN_INTERVAL)

\* five permits issued in exactly four minimum intervals, two callers involved
C1_Witness ==
    /\ permits = 5
    /\ last_request_time - firstPermit = 4 * MIN_INTERVAL
    /\ \E c, d \in Callers : c # d /\ pc[c] = "send" /\ pc[d] \in {"wait", "backoff", "done"}

\* C2: a call whose first two attempts end in a transient failure makes a
\* third attempt, and when that one succeeds the call returns its result
\* after exactly 3 attempts.
C2_TwoFailuresThenSuccess ==
    \A c \in Callers : pc[c] = "done" =>
        LET o == outcomes[c] IN
        /\ (Len(o) >= 1 /\ IsTransient(o[1]) => Len(o) >= 2)
        /\ (Len(o) >= 2 /\ IsTransient(o[1]) /\ IsTransient(o[2]) => Len(o) >= 3)
        /\ (Len(o) >= 3 /\ IsTransient(o[1]) /\ IsTransient(o[2]) /\ IsSuccess(o[3])
                => /\ Len(o) = 3
                   /\ attempt[c] = 3
                   /\ result[c].kind = "ok"
                   /\ result[c].attempt = 3
                   /\ result[c].status = o[3])

C2_Witness ==
    \E c \in Callers :
        /\ pc[c] = "done"
        /\ outcomes[c] = <<503, TRANSPORT, 200>>
        /\ result[c].kind = "ok"
        /\ result[c].form = "json"

\* C3: an attempt is followed by another attempt of the same call iff it ended
\* in status >= 500 or a transport failure and fewer than 3 attempts have been
\* made; no call makes more than 3 attempts; any other 4xx ends the call as
\* a generic HTTP failure without being tried again.
C3_RetryIff ==
    /\ [][\A c \in Callers : pc[c] = "wait" /\ pc'[c] # "wait" =>
            LET s == LastOf(outcomes'[c]) IN
            /\ pc'[c] \in {"backoff", "done"}
            /\ pc'[c] = "backoff" <=> (IsTransient(s) /\ attempt[c] < 3)
            /\ (s >= 400 /\ s < 500 /\ s \notin {401, 403, 429})
                    => pc'[c] = "done" /\ result'[c].kind = "HTTPStatusError"
                       /\ result'[c].status = s]_vars
    /\ [][\A c \in Callers : attempt'[c] > attempt[c] /\ attempt[c] >= 1
            => pc[c] = "backoff" /\ pc'[c] = "lock"]_vars
    /\ [][\A c \in Callers : pc[c] = "backoff" /\ pc'[c] # "backoff"
            => attempt'[c] = attempt[c] + 1]_vars
    /\ [](\A c \in Callers : attempt[c] <= 3 /\ Len(outcomes[c]) <= 3)

\* a 404 on the second attempt, after a retried 503, ends the call
C3_Witness ==
    \E c \in Callers :
        /\ pc[c] = "done"
        /\ outcomes[c] = <<503, 404>>
        /\ result[c].kind = "HTTPStatusError"

\* C4: a 401 or 403 response ends the call as an Auth error and a 429 as a
\* RateLimited error; the attempt that got it is never tried again, on
\* whichever attempt it arrives, so a call whose first response is one of
\* them makes exactly 1 attempt.
C4_AuthAndRateLimitNotRetried ==
    \A c \in Callers :
        LET o == outcomes[c] IN
        \A i \in 1 .. Len(o) :
            o[i] \in {401, 403, 429} =>
                /\ i = Len(o)
                /\ attempt[c] = i
                /\ pc[c] = "done"
                /\ result[c].attempt = i
                /\ result[c].status = o[i]
                /\ result[c].kind =
                       (IF o[i] = 429 THEN "FAOSTATRateLimitError" ELSE "FAOSTATAuthError")

C4_Witness ==
    \E c \in Callers :
        /\ pc[c] = "done"
        /\ outcomes[c] = <<403>>
        /\ attempt[c] = 1
        /\ result[c].kind = "FAOSTATAuthError"

\* C5: when all 3 attempts end in transient failures the call raises the
\* exception of the third attempt itself: its class and status, not a
\* retry-exhausted wrapper and not an earlier attempt's exception.
C5_FinalExceptionUnchanged ==
    \A c \in Callers : pc[c] = "done" =>
        LET o == outcomes[c] IN
        /\ ((\A i \in 1 .. Len(o) : IsTransient(o[i])) => Len(o) = 3)
        /\ (Len(o) = 3 /\ (\A i \in 1 .. 3 : IsTransient(o[i]))
                => /\ result[c].attempt = 3
                   /\ result[c].status = o[3]
                   /\ result[c].kind =
                          (IF o[3] = TRANSPORT THEN "TransportError" ELSE "HTTPStatusError"))

\* the first two attempts fail with 500 and 503, the third with a transport failure
C5_Witness ==
    \E c \in Callers :
        /\ pc[c] = "done"
        /\ outcomes[c] = <<500, 503, TRANSPORT>>
        /\ result[c].kind = "TransportError"

\* C6: every HTTP request, a retry's included, uses up a permit of its own:
\* the permits issued are the requests sent plus the callers that hold a
\* permit and have not sent yet, so the two numbers are equal whenever no
\* caller stands between _throttle and the request; every permit advances
\* the shared last dispatch time; a retried attempt re-enters _throttle.
C6_PermitPerRequest ==
    /\ [](permits = requests + Cardinality(Sending))
    /\ [][permits' # permits => permits' = permits + 1
            /\ last_request_time' > last_request_time
            /\ last_request_time' = clock]_vars
    /\ [][requests' # requests => requests' = requests + 1 /\ permits' = permits
            /\ \E c \in Sending : pc'[c] = "wait"]_vars
    /\ [][\A c \in Callers : pc[c] = "backoff" /\ pc'[c] # "backoff"
            => pc'[c] = "lock"]_vars

\* a third attempt is in flight and every permit issued so far has been used
C6_Witness ==
    \E c \in Callers :
        /\ attempt[c] = 3
        /\ pc[c] = "wait"
        /\ permits = requests
        /\ requests >= 3

----------------------------------------------------------------------------
(* Claims about the pipeline's entry, the cleaner and the extractor *)

\* C7: a single-domain pipeline started with neither CSV nor Parquet enabled
\* is rejected before any network activity: it sends no request and its run
\* ends rejected.
C7_NoFormatRejected ==
    (entry # "none" /\ ~to_csv /\ ~to_parquet)
        => /\ requests = 0
           /\ (ppc \in {"done", "failed", "rejected"} => ppc = "rejected")

\* C8 as stated: cleaning scenario A gives two rows, year = [2020, null],
\* value = [5.5, null], and one fetched_at column.
C8_BothRowsRetained ==
    (rawInput = ScenarioA /\ stage = "returned")
        => /\ frame.cols = <<C_year, C_value, C_fetched_at>>
           /\ Len(frame.rows) = 2
           /\ Column(frame, 1) = <<Num(2020 * Scale), NullCell>>
           /\ Column(frame, 2) = <<Num(55), NullCell>>

\* C8 amended: cleaning scenario A never raises and gives one row, year =
\* [2020], value = [5.5], with one fetched_at column; after type coercion the
\* second row is null in year and in value, and _drop_empty_rows drops it.
C8_SecondRowDropped ==
    rawInput = ScenarioA =>
        /\ stage # "raised"
        /\ (stage = "cast"
              => /\ Column(frame, 1) = <<Num(2020 * Scale), NullCell>>
                 /\ Column(frame, 2) = <<Num(55), NullCell>>)
        /\ (stage = "returned"
              => /\ frame.cols = <<C_year, C_value, C_fetched_at>>
                 /\ frame.rows = <<<<Num(2020 * Scale), Num(55), Stamp(fetched_at)>>>>)

C8_Witness ==
    /\ rawInput = ScenarioA
    /\ stage = "returned"
    /\ Len(frame.rows) = 1
    /\ fetched_at = 1

\* C9: extraction never raises, whatever the raw response is (a sequence, a
\* mapping, null or another JSON scalar), and a response that is neither a
\* sequence nor a non-empty mapping yields the empty sequence.
C9_ExtractionTotal ==
    stage \notin {"idle", "called"} =>
        /\ ~extracted.raised
        /\ ((rawInput.t \notin {"list", "dict"} \/ rawInput = JDict(<<>>))
                => ExtractedLen(extracted) = 0)

PriorityKeys == <<K_data, K_Data, K_items, K_results>>
ListKeys(r) ==
    {i \in 1 .. 4 : \E e \in Range(r.ents) : e.k = PriorityKeys[i] /\ e.isList}
FirstListKey(r) == CHOOSE i \in ListKeys(r) : \A j \in ListKeys(r) : i <= j
ListUnder(r, k) == (CHOOSE e \in Range(r.ents) : e.k = k).recs
AsRecord(r) == [i \in 1 .. Len(r.ents) |-> Field(r.ents[i].k, r.ents[i].v)]

\* C10: on a sequence or a mapping, extraction returns (a) the sequence
\* itself; (b) else the value of the first of data, Data, items, results
\* that holds a sequence, empty or not, keys holding no sequence being
\* skipped; (c) else the mapping wrapped as the only record, when it is not
\* empty; (d) else the empty sequence.
C10_ExtractionCases ==
    (stage \notin {"idle", "called"} /\ rawInput.t \in {"list", "dict"}) =>
        /\ ~extracted.raised
        /\ extracted.bare = <<>>
        /\ extracted.recs =
              (IF rawInput.t = "list" THEN rawInput.recs
               ELSE IF ListKeys(rawInput) # {}
               THEN ListUnder(rawInput, PriorityKeys[FirstListKey(rawInput)])
               ELSE IF rawInput.ents # <<>> THEN <<AsRecord(rawInput)>>
               ELSE <<>>)

\* "data" holds a scalar and is skipped; the empty list under "Data" wins
\* over the record under "items"
C10_Witness ==
    /\ rawInput = EnvelopeOf(<<"scalar", "empty", "one", "absent">>, FALSE)
    /\ stage = "returned"
    /\ extracted.recs = <<>>

----------------------------------------------------------------------------
(* Claims about the run of the pipeline *)

\* the response carries at least one record: a non-empty list, or a mapping
\* whose first wrapper key holding a list holds a non-empty one
HoldsRecords(r) ==
    \/ r.t = "list" /\ Len(r.recs) > 0
    \/ /\ r.t = "dict"
       /\ ListKeys(r) # {}
       /\ Len(ListUnder(r, PriorityKeys[FirstListKey(r)])) > 0

StepsAfter(step) ==
    CASE step = "idle" -> {"sizing", "fetching", "rejected"}
      [] step = "sizing" -> {"fetching"}
      [] step = "fetching" -> {"validating", "failed"}
      [] step = "validating" -> {"cleaning", "failed"}
      [] step = "cleaning" -> {"validating_clean", "failed"}
      [] step = "validating_clean" -> {"exporting", "failed"}
      [] step = "exporting" -> {"done", "failed"}
      [] OTHER -> {}

\* C11: a run of the pipeline goes through Sizing (only when asked for),
\* Fetching, Validating(raw), Cleaning, Validating(clean), Exporting, Done in
\* that order; the exporter is reached only after the fetch returned a
\* response that holds records and cleaning gave a frame with rows; a fetch
\* that raised ends the run in Failed; after Failed or Done nothing of the
\* run changes any more.
C11_StepOrder ==
    /\ [][ppc' # ppc => ppc' \in StepsAfter(ppc)]_vars
    /\ [][ppc' = "sizing" => check_size_first']_vars
    /\ [][ppc = "fetching" /\ ppc' # ppc
            => /\ pc[1] = "done"
               /\ (ppc' = "validating" <=> result[1].kind = "ok")
               /\ (ppc' = "failed" => failure' = result[1].kind)]_vars
    /\ [][(ppc \in {"done", "failed", "rejected"})
            => (UNCHANGED <<ppc, failure, fetched, cleaned, written, files, requests>>)]_vars
    /\ [](ppc \in {"cleaning", "validating_clean", "exporting", "done"}
            => HoldsRecords(fetched))
    /\ [](ppc \in {"exporting", "done"}
            => Len(cleaned.rows) > 0 /\ Len(cleaned.cols) > 0)
    /\ [](files # {} => ppc = "done")
    /\ [](ppc \in {"failed", "rejected"} <=> failure # "none")

\* a run with the sizing step that wrote both files
C11_Witness ==
    /\ ppc = "done"
    /\ check_size_first
    /\ sizing = "estimated"
    /\ Cardinality(written) = 2
    /\ requests = 2

\* the codes of the domains the batch started on, in order
Processed == SelectSeq(console, LAMBDA l : l.text = "processing")
\* the positions of console at which a domain was started and did not fail
SucceededAt ==
    {i \in 1 .. Len(console) :
        /\ console[i].text = "processing"
        /\ \A j \in (i + 1) .. Len(console) :
              (console[j].text = "failed" /\ console[j].code = console[i].code)
                  => \E k \in (i + 1) .. (j - 1) : console[k].text = "processing"}

\* C12: whatever the domain list and whichever domains fail, the batch
\* starts the pipeline on every domain of the list, in order; it never fails
\* because a domain failed; and the mapping it returns has exactly the
\* domains whose pipeline completed as keys, each with what export returned.
C12_BatchPartialResults ==
    /\ [](entry = "batch" => ppc # "batch_failed")
    /\ [][(entry = "batch" /\ ppc = "failed" /\ ppc' # ppc)
            => /\ results' = results
               /\ IF code_idx < Len(domain_codes)
                  THEN ppc' = "sizing" /\ code_idx' = code_idx + 1
                  ELSE ppc' = "returned"]_vars
    /\ [](ppc = "returned" =>
            /\ Len(Processed) = Len(domain_codes)
            /\ \A i \in 1 .. Len(domain_codes) : Processed[i].code = domain_codes[i]
            /\ {e.code : e \in results} = {console[i].code : i \in SucceededAt}
            /\ \A e \in results : e.written = ExportWritten(e.code, to_csv, to_parquet))

\* three domains, the second of which failed with EmptyUpstream
C12_Witness ==
    /\ ppc = "returned"
    /\ domain_codes = <<"QCL", "TM", "FS">>
    /\ \E i \in 1 .. Len(console) : console[i] = Line("TM", "failed", "EmptyUpstream")
    /\ {e.code : e \in results} = {"QCL", "FS"}
    /\ \A e \in results : Cardinality(e.written) = 2

\* C13: when the fetched response holds no record (an empty list, null, a
\* mapping without a wrapper key that holds a list, or one whose first such
\* key holds an empty list) the run fails with the EmptyUpstream error
\* straight from the presence check: clean_data and export are not called,
\* and no file or directory is written.
C13_EmptyUpstream ==
    /\ [][(ppc = "validating" /\ ~HoldsRecords(fetched) /\ ppc' # ppc)
            => /\ ppc' = "failed"
               /\ failure' = "EmptyUpstream"
               /\ UNCHANGED <<cleaned, written, files, partitions>>]_vars
    /\ [](failure = "EmptyUpstream"
            => /\ ppc = "failed"
               /\ ~HoldsRecords(fetched)
               /\ cleaned = EmptyFrame
               /\ written = {}
               /\ files = {}
               /\ partitions = {})
    /\ [](ppc \in {"cleaning", "validating_clean", "exporting", "done"}
            => failure = "none" /\ HoldsRecords(fetched))

\* a response whose only wrapper key holds an empty list
C13_Witness ==
    /\ fetched = JDict(<<ListEntry(K_results, <<>>)>>)
    /\ ppc = "failed"
    /\ failure = "EmptyUpstream"
    /\ files = {}

\* C14: when the fetched response holds records but the cleaned frame has no
\* row (every record null in every field after type coercion, as in
\* [{"Year": "x", "Value": null}]) the run fails with the EmptyAfterClean
\* error, which is not the EmptyUpstream error, and export is not called:
\* nothing is written.
C14_EmptyAfterClean ==
    /\ [][(ppc = "validating_clean" /\ Len(cleaned.rows) = 0 /\ ppc' # ppc)
            => /\ ppc' = "failed"
               /\ failure' = "EmptyAfterClean"
               /\ failure' # "EmptyUpstream"
               /\ UNCHANGED <<written, files, partitions>>]_vars
    /\ [](failure = "EmptyAfterClean"
            => /\ ppc = "failed"
               /\ HoldsRecords(fetched)
               /\ Len(cleaned.rows) = 0
               /\ written = {}
               /\ files = {}
               /\ partitions = {})
    /\ [](fetched = AllNullList
            => /\ ppc \notin {"exporting", "done"}
               /\ (ppc = "failed" => failure = "EmptyAfterClean"))

C14_Witness ==
    /\ fetched = AllNullList
    /\ HoldsRecords(fetched)
    /\ ppc = "failed"
    /\ failure = "EmptyAfterClean"
    /\ cleaned.cols = <<C_year, C_value, C_fetched_at>>
    /\ files = {}

SizingFailures ==
    {"FAOSTATAuthError", "FAOSTATRateLimitError", "HTTPStatusError", "TransportError",
     "AttributeError"}

\* C15: however the sizing step ends (an Auth or RateLimited error, transient
\* failures on all attempts, a generic HTTP failure, or a response that is no
\* mapping) the run does not fail there: the step is always followed by the
\* first attempt of the data GET, and a run that asked for sizing and is past
\* Fetching has sent at least the sizing request and the data request.
C15_SizingSwallowed ==
    /\ [][(ppc = "sizing" /\ ppc' # ppc)
            => /\ ppc' = "fetching"
               /\ failure' = "none"
               /\ sizing' \in SizingFailures \cup {"estimated"}
               /\ (result[1].kind # "ok" => sizing' = result[1].kind)
               /\ pc'[1] = "lock"
               /\ attempt'[1] = 1
               /\ outcomes'[1] = <<>>]_vars
    /\ [](sizing # "none" => ppc # "sizing" /\ check_size_first)
    /\ []((check_size_first /\ ppc \in {"validating", "cleaning", "validating_clean",
                                        "exporting", "done", "failed"})
            => sizing # "none" /\ requests >= 2)

\* the sizing request was refused with 429 and the run still wrote its files
C15_Witness ==
    /\ sizing = "FAOSTATRateLimitError"
    /\ ppc = "done"
    /\ failure = "none"
    /\ files # {}

----------------------------------------------------------------------------
(* Claims about the cleaned frame *)

\* the columns of a frame other than the provenance column
NonProvenance(df) == {j \in 1 .. Len(df.cols) : df.cols[j] # C_fetched_at}

\* C16: in every frame clean_data returns, no row is null in all its
\* non-provenance fields and no two rows are equal in all their
\* non-provenance fields.
C16_NoNullRowNoDuplicate ==
    stage = "returned" =>
        /\ \A i \in 1 .. Len(frame.rows) :
              \E j \in NonProvenance(frame) : ~IsNull(frame.rows[i][j])
        /\ \A i, h \in 1 .. Len(frame.rows) :
              i # h => \E j \in NonProvenance(frame) : frame.rows[i][j] # frame.rows[h][j]

\* C17: the fetched_at column holds the same value in every row of the frame
\* one clean_data call returns, and a call whose clock reading is a second
\* or more away from the previous call's stamps a different value.
C17_OneStampPerInvocation ==
    (stage = "returned" /\ frame.rows # <<>>) =>
        /\ fetched_at >= 1
        /\ Cardinality({j \in 1 .. Len(frame.cols) : frame.cols[j] = C_fetched_at}) = 1
        /\ \A i, h \in 1 .. Len(frame.rows) : \A j \in 1 .. Len(frame.cols) :
              frame.cols[j] = C_fetched_at
                  => ~IsNull(frame.rows[i][j]) /\ frame.rows[i][j] = frame.rows[h][j]
        /\ \A i \in 1 .. Len(frame.rows) : \A j \in 1 .. Len(frame.cols) :
              (/\ frame.cols[j] = C_fetched_at
               /\ prev_fetched_at.time >= 1
               /\ (fetched_at - prev_fetched_at.time >= 1
                      \/ prev_fetched_at.time - fetched_at >= 1))
                  => frame.rows[i][j] # prev_fetched_at.value

\* the second call returned two rows, one second after the first call
C17_Witness ==
    /\ invocations = 2
    /\ stage = "returned"
    /\ Len(frame.rows) = 2
    /\ prev_fetched_at.time = 1
    /\ fetched_at = 2

----------------------------------------------------------------------------
(* Claims about the exporter *)

\* C18: export on a frame without rows, and export_partitioned on a frame
\* without rows or without the partition column, raise an error and leave
\* the file system as it was: no directory is created, no file is written.
C18_ExportPreconditions ==
    /\ [][((\/ ppc \in {"exporting", "partitioning"} /\ Len(cleaned.rows) = 0
            \/ ppc = "partitioning" /\ partition_col \notin Range(cleaned.cols))
           /\ ppc' # ppc)
            => /\ ppc' = "failed"
               /\ failure' # "none"
               /\ ErrorClass(failure') = "ValueError"
               /\ UNCHANGED <<files, partitions, written>>]_vars
    /\ [](ppc = "failed" => files = {} /\ partitions = {} /\ written = {})

\* export_partitioned by "value" on a frame that has rows and no such column
C18_Witness ==
    /\ entry = "export_partitioned"
    /\ Len(cleaned.rows) > 0
    /\ partition_col = C_value
    /\ C_value \notin Range(cleaned.cols)
    /\ ppc = "failed"
    /\ failure = "MissingPartitionColumn"
    /\ files = {}

\* C19: export on a frame that is not empty creates the domain directory,
\* writes data.csv when CSV is asked for and data.parquet when Parquet is,
\* nothing else, and returns one (format, path) entry per file written.
C19_ExportReturnsWritten ==
    /\ [][(ppc = "exporting" /\ Len(cleaned.rows) > 0 /\ Len(cleaned.cols) > 0 /\ ppc' # ppc)
            => /\ ppc' = "done"
               /\ failure' = "none"
               /\ written' =
                     {[fmt |-> "csv", path |-> [domain |-> DomainCode, name |-> "data.csv"]]
                         : x \in {y \in {1} : to_csv}}
                     \cup {[fmt |-> "parquet",
                            path |-> [domain |-> DomainCode, name |-> "data.parquet"]]
                              : x \in {y \in {1} : to_parquet}}
               /\ {f \in files' : f.name # ""} = {e.path : e \in written'}
               /\ {f \in files' : f.name = ""} = {[domain |-> DomainCode, name |-> ""]}
               /\ partitions' = partitions]_vars
    /\ []((entry = "export" /\ ppc = "done")
            => Cardinality(written) = (IF to_csv THEN 1 ELSE 0) + (IF to_parquet THEN 1 ELSE 0))

\* both formats asked for on a two-row frame: two artifact paths
C19_Witness ==
    /\ entry = "export"
    /\ ppc = "done"
    /\ Len(cleaned.rows) = 2
    /\ to_csv /\ to_parquet
    /\ Cardinality(written) = 2
    /\ Cardinality(files) = 3

----------------------------------------------------------------------------
(* Claims about successful responses *)

\* C20: an attempt that gets a 2xx response ends the call at once, without a
\* failure and without another attempt; the call returns the parsed payload
\* for a JSON body, the status descriptor for an empty body, and the
\* descriptor of status and raw text for a body that is no JSON.
C20_SuccessReturned ==
    /\ [][\A c \in Callers : (pc[c] = "wait" /\ pc'[c] # "wait"
                                /\ LastOf(outcomes'[c]) >= 200 /\ LastOf(outcomes'[c]) < 300)
            => /\ pc'[c] = "done"
               /\ attempt'[c] = attempt[c]
               /\ result'[c].kind = "ok"
               /\ result'[c].status = LastOf(outcomes'[c])
               /\ result'[c].attempt = attempt[c]]_vars
    /\ [](\A c \in Callers : \A i \in 1 .. Len(outcomes[c]) :
              (outcomes[c][i] >= 200 /\ outcomes[c][i] < 300)
                  => i = Len(outcomes[c]) /\ pc[c] = "done")
    /\ [](\A c \in Callers : result[c].kind = "ok" =>
              /\ result[c].body \in {"json", "empty", "text"}
              /\ (result[c].body = "json" => result[c].form = "json")
              /\ (result[c].body = "empty" => result[c].form = "status")
              /\ (result[c].body = "text" => result[c].form = "status_text"))

\* a 200 with a body that is no JSON, on the attempt after a retried 503
C20_Witness ==
    \E c \in Callers :
        /\ pc[c] = "done"
        /\ outcomes[c] = <<503, 200>>
        /\ result[c].kind = "ok"
        /\ result[c].body = "text"
        /\ result[c].form = "status_text"

----------------------------------------------------------------------------
(* Claims about the construction of the client *)

\* the token's second segment decodes to a JSON object with a numeric exp
HasExpiry(tok) ==
    /\ Len(tok) >= 2
    /\ tok[2].kind = "json"
    /\ tok[2].value.t = "dict"
    /\ HasKey(tok[2].value.ents, K_exp)
    /\ ~EntryOf(tok[2].value.ents, K_exp).isList
    /\ EntryOf(tok[2].value.ents, K_exp).v.t = "num"

\* seconds left until the expiry of a token that has one, times Scale
Remaining(tok, now) == EntryOf(tok[2].value.ents, K_exp).v.n - now * Scale

\* the token's second segment decodes to a JSON object
HasClaims(tok) == Len(tok) >= 2 /\ tok[2].kind = "json" /\ tok[2].value.t = "dict"

\* C21: constructing the client sends no request; it fails with
\* FAOSTATAuthError when no token is given; for a token with an expiry claim
\* it fails with FAOSTATAuthError when the expiry has passed, succeeds with
\* one warning when fewer than 600 seconds remain and succeeds without a
\* warning otherwise; every other token is accepted without a warning.
C21_ConstructionContract ==
    constructed # "none" =>
        /\ requests = 0
        /\ token = NoToken => constructed = "FAOSTATAuthError"
        /\ (token # NoToken /\ HasExpiry(token)) =>
              /\ Remaining(token, wall) <= 0 => constructed = "FAOSTATAuthError"
              /\ (Remaining(token, wall) > 0 /\ Remaining(token, wall) < 600 * Scale)
                    => constructed = "ok" /\ warned = 1
              /\ Remaining(token, wall) >= 600 * Scale => constructed = "ok" /\ warned = 0
        /\ (token # NoToken /\ ~HasExpiry(token)) => constructed = "ok" /\ warned = 0

----------------------------------------------------------------------------
(* Claims about the diagnostics of an empty response *)

\* the keys under which a response embeds a status or a message
DiagnosticKeys == {K_status_code, K_status, K_message, K_description, K_text}

\* C22: when the presence check fails, the message of the error the run
\* fails with names the domain, and for a mapping also its keys and the
\* value of every status or message field it embeds.
C22_ErrorNamesContext ==
    (ppc = "failed" /\ failure = "EmptyUpstream") =>
        LET args == FailureMessage(failure, DomainCode).args
            Names(kind, value) ==
                \E i \in 1 .. Len(args) : args[i].kind = kind /\ args[i].value = value
        IN /\ Names("domain", DomainCode)
           /\ fetched.t = "dict" =>
                 /\ Names("keys", Keys(fetched.ents))
                 /\ \A k \in DiagnosticKeys :
                       HasKey(fetched.ents, k) => Names("field", Got(EntryOf(fetched.ents, k)))

----------------------------------------------------------------------------
(* Claims about the progress of the rate limiter *)

\* C23: _throttle has no way to fail: a caller in it goes on to sleep with
\* the lock or to send its request, never anywhere else; every caller that
\* enters it is issued a permit in the end, however the callers interleave;
\* and each permit leaves the lock free.
C23_AcquireTerminates ==
    /\ [][\A c \in Callers :
            (pc[c] \in {"lock", "sleep"} /\ pc'[c] # pc[c])
                => \/ pc[c] = "lock" /\ pc'[c] = "sleep"
                   \/ pc'[c] = "send" /\ permits' = permits + 1]_vars
    /\ \A c \in Callers : (pc[c] = "lock") ~> (pc[c] = "send")
    /\ [][permits' # permits => rate_lock' = 0]_vars

\* a caller is suspended in acquire() behind the holder of the lock, which sleeps
C23_Witness ==
    /\ pc[1] = "sleep"
    /\ rate_lock = 1
    /\ pc[2] = "lock"
    /\ waiters = <<2>>
    /\ permits >= 2

----------------------------------------------------------------------------
(* Claims about the backoff *)

\* the waits in seconds after the first, second, ... failed attempt, were
\* the attempts not limited
BackoffTable == <<1, 2, 4, 8, 10, 10>>

\* C24: the wait after the k-th failed attempt is min(10, 2^(k-1)) seconds;
\* a call waits 1 s after its first failed attempt and 2 s after its second
\* before it tries again, and after its third attempt it ends without a wait.
C24_BackoffWaits ==
    /\ [](\A k \in 1 .. Len(BackoffTable) : WaitExponential(k) = BackoffTable[k])
    /\ [][\A c \in Callers : (pc[c] = "wait" /\ pc'[c] = "backoff")
            => /\ attempt[c] \in {1, 2}
               /\ attempt[c] = 1 => wake'[c] = clock + 1 * Second
               /\ attempt[c] = 2 => wake'[c] = clock + 2 * Second]_vars
    /\ [][\A c \in Callers : (pc[c] = "backoff" /\ pc'[c] # "backoff")
            => clock >= wake[c] /\ attempt'[c] = attempt[c] + 1]_vars
    /\ [][\A c \in Callers : (pc[c] = "wait" /\ attempt[c] = 3 /\ pc'[c] # "wait")
            => pc'[c] = "done" /\ wake'[c] = wake[c]]_vars

\* the call is in its wait after the second failed attempt, two seconds long
C24_Witness ==
    /\ pc[1] = "backoff"
    /\ attempt[1] = 2
    /\ outcomes[1] = <<503, TRANSPORT>>
    /\ wake[1] - clock = 2 * Second

----------------------------------------------------------------------------
(* Claims about the presence check and the extractor *)

\* C25: whenever the presence check accepts a response, the extractor
\* returns, without raising, the list the check looked at: the response
\* itself when it is a list, else the list under the first of data, Data,
\* items, results that holds a list; and that list is not empty.
C25_PresenceAgreesWithExtraction ==
    (stage \notin {"idle", "called"} /\ ResponseHasData(rawInput)) =>
        /\ rawInput.t \in {"list", "dict"}
        /\ ~extracted.raised
        /\ extracted.bare = <<>>
        /\ extracted.recs # <<>>
        /\ rawInput.t = "list" => extracted.recs = rawInput.recs
        /\ rawInput.t = "dict" =>
              /\ ListKeys(rawInput) # {}
              /\ extracted.recs = ListUnder(rawInput, PriorityKeys[FirstListKey(rawInput)])

\* "data" holds a scalar and is skipped by both; "Data" holds the record
\* both settle on, before the empty list under "items"
C25_Witness ==
    /\ rawInput = EnvelopeOf(<<"scalar", "one", "empty", "one">>, TRUE)
    /\ stage = "returned"
    /\ ResponseHasData(rawInput)
    /\ extracted.recs = <<<<Field(K_Data, Str(V_x))>>>>

----------------------------------------------------------------------------
(* Claims about responses that are mappings without records *)

\* a mapping in which none of data, Data, items, results holds a list
NoListMapping(r) == r.t = "dict" /\ ListKeys(r) = {}

\* C26: a run whose fetched response is a mapping without a list under a
\* wrapper key (the client's {"status"} and {"status", "text"} descriptors
\* among them) fails at the presence check with the EmptyUpstream error and
\* neither cleans nor exports, although _extract_records would hand such a
\* mapping, when it is not empty, to the cleaner as one record.
C26_DescriptorsRejected ==
    /\ [](NoListMapping(fetched) =>
            /\ ppc \in {"validating", "failed"}
            /\ ppc = "failed" => failure = "EmptyUpstream"
            /\ cleaned = EmptyFrame
            /\ written = {}
            /\ files = {}
            /\ fetched.ents # <<>> => ExtractRecords(fetched) = Extracted(<<AsRecord(fetched)>>))
    /\ [][(NoListMapping(fetched) /\ ppc = "validating" /\ ppc' # ppc) => ppc' = "failed"]_vars

\* the data GET was answered 200 with a body that is no JSON
C26_Witness ==
    /\ fetched = StatusTextDescriptor
    /\ ppc = "failed"
    /\ failure = "EmptyUpstream"
    /\ requests >= 1
    /\ ExtractRecords(fetched).recs # <<>>

----------------------------------------------------------------------------
(* Claims about the number of requests *)

\* the number of calls of one endpoint in the log of a run
CallsOf(name) == Cardinality({i \in 1 .. Len(calls) : calls[i] = name})

\* the runs a batch has finished before the current one
RunsBefore == IF code_idx = 0 THEN 0 ELSE code_idx - 1

\* the runs started in all: one, or one for each domain of the batch
RunsInAll == IF entry = "batch" THEN Len(domain_codes) ELSE 1

\* C27: a run calls the data endpoint once, and not more than once; it
\* sends at most 3 requests for the sizing call and at most 3 for the data
\* call, 6 in all, and at most 3 when sizing is switched off; a batch over n
\* domains sends at most 6n requests.
C27_RequestBudget ==
    /\ CallsOf("get_data") <= 1
    /\ CallsOf("get_datasize") <= 1
    /\ (entry = "api" /\ ppc \in {"done", "failed"}) => CallsOf("get_data") = 1
    /\ (entry = "batch" /\ ppc \in {"done", "failed"}) => CallsOf("get_data") = 1
    /\ attempt[1] <= 3
    /\ Len(outcomes[1]) <= 3
    /\ entry = "api" => requests <= 3 * Len(calls)
    /\ (entry = "api" /\ ~check_size_first) => calls \in {<<>>, <<"get_data">>} /\ requests <= 3
    /\ (entry = "batch" /\ ppc # "returned") => requests <= 6 * RunsBefore + 3 * Len(calls)
    /\ entry # "none" => requests <= 6 * RunsInAll

\* a batch of two domains has ended after twelve requests: in each run both
\* calls took three attempts
C27_Witness ==
    /\ entry = "batch"
    /\ ppc = "returned"
    /\ Len(domain_codes) = 2
    /\ requests = 12
    /\ results # {}

----------------------------------------------------------------------------
(* Claims about the partitioned export *)

RECURSIVE RowsIn(_)
\* the number of rows in a set of written partition files
RowsIn(ps) ==
    IF ps = {} THEN 0
    ELSE LET p == CHOOSE q \in ps : TRUE IN Len(p.rows) + RowsIn(ps \ {p})

\* the cells of the partition column of the exported frame, row by row
PartitionCells ==
    LET j == CHOOSE h \in 1 .. Len(cleaned.cols) : cleaned.cols[h] = partition_col
    IN [i \in 1 .. Len(cleaned.rows) |-> cleaned.rows[i][j]]

\* C28: export_partitioned on a frame with rows and the partition column
\* writes, for every distinct value of the column, the file
\* {domain_code}/{partition_col}={value}/data.parquet, and every row of the
\* frame is in exactly one of the files, a row whose value is null included:
\* the rows of the files add up to the rows of the frame.
C28_EveryRowWritten ==
    (entry = "export_partitioned" /\ ppc = "done") =>
        /\ {p.path : p \in partitions}
              = {PartitionFile(DomainCode, partition_col, v) : v \in Range(PartitionCells)}
        /\ written = {p.path : p \in partitions}
        /\ \A i \in 1 .. Len(cleaned.rows) :
              Cardinality({p \in partitions : \E k \in 1 .. Len(p.rows) :
                              p.rows[k] = cleaned.rows[i]}) = 1
        /\ RowsIn(partitions) = Len(cleaned.rows)

----------------------------------------------------------------------------
(* Claims about what the lock covers *)

\* C29: the lock is held only by a caller inside _throttle, asleep between
\* its check and its record; a caller that waits in a backoff, has its
\* request in flight or has its result never holds it; and while one caller
\* is in a backoff or awaits its response, another caller at the lock
\* takes it and gets its permit, unless a third one sleeps with the lock.
C29_LockScope ==
    /\ [](rate_lock # 0 => rate_lock \in Callers /\ pc[rate_lock] = "sleep")
    /\ [](\A c \in Callers :
            pc[c] \in {"idle", "lock", "send", "wait", "backoff", "done"} => rate_lock # c)
    /\ [](\A c, d \in Callers :
            (/\ c # d
             /\ pc[c] \in {"wait", "backoff"}
             /\ pc[d] = "lock"
             /\ \A e \in Callers : pc[e] # "sleep")
                => ENABLED Acquire(d))
    /\ [][\A c \in Callers : (pc[c] = "sleep" /\ pc'[c] # "sleep")
            => rate_lock = c /\ rate_lock' = 0]_vars

\* caller 1 is in its first backoff wait, and caller 2 was issued a permit
\* and sent its request after that wait began
C29_Witness ==
    /\ pc[1] = "backoff"
    /\ attempt[1] = 1
    /\ clock < wake[1]
    /\ pc[2] = "wait"
    /\ last_request_time > wake[1] - WaitExponential(1) * Second
    /\ rate_lock = 0

====
